---- MODULE Spec2Model ----
(***************************************************************************)
(* The Raycast -> OpenAI event-stream transcoder of src/src/index.ts.      *)
(*                                                                         *)
(* JavaScript objects are modelled as records that hold exactly the keys   *)
(* that are present (o.k === undefined is "k is not in DOMAIN o"), the     *)
(* value null as JSNull, arrays as sequences.  Text is a sequence of       *)
(* tokens: the newline, a blank, the literal "data:", the literal          *)
(* "[DONE]", one JSON document, and a run of characters that is not JSON.  *)
(***************************************************************************)
EXTENDS Integers, Sequences, FiniteSets, TLC

\* ------------------------------------------------------------------------
\* Bounds
\* ------------------------------------------------------------------------
\* Total number of text pieces the upstream delivers over all its pushes.
MaxPieces == 3

\* ------------------------------------------------------------------------
\* JavaScript values
\* ------------------------------------------------------------------------
JSNull == "<null>"
EmptyObj == [k \in {} |-> 0]
Has(o, k) == k \in DOMAIN o

\* ------------------------------------------------------------------------
\* Text tokens and String operations on them
\* ------------------------------------------------------------------------
NL == [t |-> "\\n"]
SP == [t |-> " "]
DATA == [t |-> "data:"]
DONE == [t |-> "[DONE]"]
GARBAGE == [t |-> "{not-json"]
J(v) == [t |-> "json", v |-> v]

\* The position of the last newline, not of the first.
IndexOfNLLast(s) ==
  IF \E i \in 1..Len(s) : s[i] = NL
  THEN CHOOSE i \in 1..Len(s) : s[i] = NL /\ \A j \in (i + 1)..Len(s) : s[j] # NL
  ELSE 0

\* String.prototype.indexOf("\n"), 1-based; 0 when there is none.
IndexOfNL(s) ==
  IF \E i \in 1..Len(s) : s[i] = NL
  THEN CHOOSE i \in 1..Len(s) : s[i] = NL /\ \A j \in 1..(i - 1) : s[j] # NL
  ELSE 0

IsWhite(c) == c = SP \/ c = NL

\* String.prototype.trim(): strips white space at both ends.
RECURSIVE TrimStart(_)
TrimStart(s) ==
  IF s # <<>> /\ IsWhite(Head(s)) THEN TrimStart(Tail(s)) ELSE s

RECURSIVE TrimEnd(_)
TrimEnd(s) ==
  IF s # <<>> /\ IsWhite(s[Len(s)]) THEN TrimEnd(SubSeq(s, 1, Len(s) - 1)) ELSE s

Trim(s) == TrimEnd(TrimStart(s))

\* line.startsWith("data:")
StartsWithData(line) == line # <<>> /\ Head(line) = DATA

\* line.substring(5) of a line that starts with "data:"
Substring5(line) == Tail(line)

\* JSON.parse succeeds exactly on one JSON document (white space around it
\* is allowed by the grammar); on anything else it throws a SyntaxError.
JSONParses(s) == Len(Trim(s)) = 1 /\ Trim(s)[1].t = "json"
JSONParse(s) == Trim(s)[1].v

\* ------------------------------------------------------------------------
\* Upstream payloads (RaycastSSEData) the environment may send
\* ------------------------------------------------------------------------
FragOpen == [index |-> 0, id |-> "call_1", function |-> [name |-> "get_weather"]]
FragArgs == [index |-> 0, function |-> [arguments |-> "{x"]]
FragNoIndex == [id |-> "call_1"]
Summary == [id |-> "call_1", name |-> "get_weather", arguments |-> "{x}"]

EvText == [text |-> "a"]
EvStop == [text |-> "", finish_reason |-> "stop"]
EvNullFinish == [finish_reason |-> JSNull]
EvFrag == [tool_calls |-> <<FragOpen>>]
EvFragText == [text |-> "a", tool_calls |-> <<FragArgs>>]
EvBadFrag == [tool_calls |-> <<FragNoIndex>>]
EvSummary == [finish_reason |-> "tool_calls", tool_calls |-> <<Summary>>]
EvFinFrag == [finish_reason |-> "tool_calls", tool_calls |-> <<FragArgs>>]

Events ==
  {EvText, EvStop, EvNullFinish, EvFrag, EvFragText, EvBadFrag, EvSummary, EvFinFrag}

\* One upstream record: "data: <json>\n"
EventLine(ev) == <<DATA, SP, J(ev), NL>>
DoneLine == <<DATA, SP, DONE, NL>>
GarbageLine == <<DATA, SP, GARBAGE, NL>>
BlankLine == <<NL>>
\* A record whose newline has not arrived yet.
PartialLine == <<DATA, SP, J(EvText)>>

Pieces ==
  {EventLine(ev) : ev \in Events} \cup {DoneLine, GarbageLine, BlankLine, PartialLine}

RECURSIVE Concat(_)
Concat(ss) == IF ss = <<>> THEN <<>> ELSE Head(ss) \o Concat(Tail(ss))

\* The pushes of n pieces.
PushesOf(n) == {Concat(ps) : ps \in [1..n -> Pieces]}

\* ------------------------------------------------------------------------
\* handleStreamingResponse: the chunk built for one decoded event
\* ------------------------------------------------------------------------
HasToolCalls(jsonData) ==
  Has(jsonData, "tool_calls") /\ Len(jsonData.tool_calls) > 0

\* The flag of index.ts:377 is not consulted.
RoleCondEveryChunk(jsonData, hasSentRoleAssistant) ==
  Has(jsonData, "text") \/ HasToolCalls(jsonData)

\* index.ts:403
RoleCond(jsonData, hasSentRoleAssistant) ==
  ~hasSentRoleAssistant /\ (Has(jsonData, "text") \/ HasToolCalls(jsonData))

\* The finish_reason of the event is not consulted.
ToolCallsCondAnyFinish(jsonData) == HasToolCalls(jsonData)

\* index.ts:410
ToolCallsCond(jsonData) ==
  /\ HasToolCalls(jsonData)
  /\ ~(Has(jsonData, "finish_reason") /\ jsonData.finish_reason = "tool_calls")

\* index.ts:413, negated: the fragment is kept
FragmentKept(tc) == Has(tc, "index") /\ Has(tc, "function")

\* The id is never copied.
HasIdNever(tc) == FALSE

\* index.ts:419
HasId(tc) == Has(tc, "id") /\ tc.id # ""

\* The arguments are written twice.
FuncDeltaArgumentsTwice(tc) ==
  (IF Has(tc.function, "name") THEN [name |-> tc.function.name] ELSE EmptyObj)
  @@ (IF Has(tc.function, "arguments")
      THEN [arguments |-> tc.function.arguments \o tc.function.arguments]
      ELSE EmptyObj)

\* index.ts:421-431
FuncDelta(tc) ==
  (IF Has(tc.function, "name") THEN [name |-> tc.function.name] ELSE EmptyObj)
  @@ (IF Has(tc.function, "arguments")
      THEN [arguments |-> tc.function.arguments] ELSE EmptyObj)

\* No function object without a name or arguments.
ToolCallDeltaWithoutShell(tc) ==
  [index |-> tc.index, type |-> "function"]
  @@ (IF HasId(tc) THEN [id |-> tc.id] ELSE EmptyObj)
  @@ (IF DOMAIN FuncDelta(tc) # {} THEN [function |-> FuncDelta(tc)]
      ELSE EmptyObj)

\* index.ts:418-439
ToolCallDelta(tc) ==
  [index |-> tc.index, type |-> "function"]
  @@ (IF HasId(tc) THEN [id |-> tc.id] ELSE EmptyObj)
  @@ (IF DOMAIN FuncDelta(tc) # {} THEN [function |-> FuncDelta(tc)]
      ELSE IF HasId(tc) THEN [function |-> EmptyObj]
      ELSE EmptyObj)

\* One fragment that is not kept drops them all.
MappedToolCallsAllOrNone(jsonData) ==
  IF \A i \in 1..Len(jsonData.tool_calls) : FragmentKept(jsonData.tool_calls[i])
  THEN [i \in 1..Len(jsonData.tool_calls) |-> ToolCallDelta(jsonData.tool_calls[i])]
  ELSE <<>>

\* index.ts:411-440: map, then filter the nulls out
MappedToolCalls(jsonData) ==
  LET kept == SelectSeq(jsonData.tool_calls, FragmentKept)
  IN [i \in 1..Len(kept) |-> ToolCallDelta(kept[i])]

\* index.ts:410-445
DeltaToolCalls(jsonData) ==
  IF ToolCallsCond(jsonData) /\ Len(MappedToolCalls(jsonData)) > 0
  THEN [tool_calls |-> MappedToolCalls(jsonData)]
  ELSE EmptyObj

\* The finish_reason is not consulted.
FinishReasonTruthyNever(jsonData) == FALSE

\* JavaScript truthiness of jsonData.finish_reason
FinishReasonTruthy(jsonData) ==
  /\ Has(jsonData, "finish_reason")
  /\ jsonData.finish_reason # JSNull
  /\ jsonData.finish_reason # ""

\* The text is copied whether or not the delta has tool_calls.
DeltaContentAlways(jsonData, role, toolCalls) ==
  IF Has(jsonData, "text") THEN [content |-> jsonData.text] ELSE EmptyObj

\* The chunk that carries the role carries no text.
DeltaContentNotWithRole(jsonData, role, toolCalls) ==
  IF Has(toolCalls, "tool_calls")
  THEN (IF Has(role, "role") THEN [content |-> JSNull] ELSE EmptyObj)
  ELSE IF Has(jsonData, "text") /\ ~Has(role, "role")
       THEN (IF FinishReasonTruthy(jsonData) /\ jsonData.text = ""
             THEN EmptyObj
             ELSE [content |-> jsonData.text])
       ELSE EmptyObj

\* index.ts:448-463
DeltaContent(jsonData, role, toolCalls) ==
  IF Has(toolCalls, "tool_calls")
  THEN (IF Has(role, "role") THEN [content |-> JSNull] ELSE EmptyObj)
  ELSE IF Has(jsonData, "text")
       THEN (IF FinishReasonTruthy(jsonData) /\ jsonData.text = ""
             THEN EmptyObj
             ELSE [content |-> jsonData.text])
       ELSE EmptyObj

\* index.ts:400-463
BuildDelta(jsonData, hasSentRoleAssistant) ==
  LET role == IF RoleCond(jsonData, hasSentRoleAssistant)
              THEN [role |-> "assistant"] ELSE EmptyObj
      toolCalls == DeltaToolCalls(jsonData)
  IN role @@ toolCalls @@ DeltaContent(jsonData, role, toolCalls)

\* index.ts:465
FinishReasonForChunk(jsonData) ==
  IF Has(jsonData, "finish_reason") THEN jsonData.finish_reason ELSE JSNull

\* Every decoded event is sent.
ShouldSendAlways(delta, finishReasonForChunk) == TRUE

\* index.ts:468
ShouldSend(delta, finishReasonForChunk) ==
  DOMAIN delta # {} \/ finishReasonForChunk # JSNull

\* index.ts:469-480 (id and created carry no information that is used)
Chunk(delta, finishReasonForChunk) ==
  [kind |-> "chunk", delta |-> delta, finish_reason |-> finishReasonForChunk]

DoneMarker == [kind |-> "[DONE]"]

\* ------------------------------------------------------------------------
\* The WritableStream writer of the TransformStream (index.ts:362-363)
\* ------------------------------------------------------------------------
\* writer.write(chunk) is accepted by a writable stream and rejects otherwise.
WriterAccepts(s) == s = "writable"

\* The record is put in front of the records written before it.
EnqueueFirst(queue, record) == <<record>> \o queue

\* An accepted record follows the records written before it.
\* index.ts:481, index.ts:496
Enqueue(queue, record) == Append(queue, record)

\* The stream is left as it is.
WriterAbortIgnored(s) == s

\* writer.abort(reason): errors a writable stream; a stream that is already
\* errored or closed is left as it is.  index.ts:499
WriterAbort(s) == IF s = "writable" THEN "errored" ELSE s

\* writer.close(): closes a writable stream; rejects with a TypeError on a
\* stream that is errored or closed.  index.ts:370, index.ts:501
WriterCloses(s) == s = "writable"

\* ------------------------------------------------------------------------
\* State
\* ------------------------------------------------------------------------
VARIABLES
  pc,                    \* position of the background task of index.ts:367
  hasBody,               \* response.body is not null
  buffer,                \* index.ts:375
  streamFinished,        \* index.ts:376
  hasSentRoleAssistant,  \* index.ts:377
  sink,                  \* state of the writable side: writable/errored/closed
  out,                   \* the records the writer accepted, in order
  delivered,             \* pieces the upstream has pushed so far
  reads,                 \* calls of reader.read()
  cancelCalls,           \* calls of reader.cancel()
  upstreamFailed,        \* a reader.read() rejected
  writeFailed,           \* a writer.write() rejected
  readAfterWriteFail,    \* reader.read() was called after a rejected write
  log,                   \* one entry per decoded event, in order
  upstream,              \* the lines of an upstream body that is fixed in advance
  response,              \* what handleNonStreamingResponse returned
  call,                  \* one application of a function to drawn arguments
  peer,                  \* the run of a second request, transcoded concurrently
  worker                 \* the Worker: its env, the upstream calls made, the last request served

vars ==
  <<pc, hasBody, buffer, streamFinished, hasSentRoleAssistant, sink, out,
    delivered, reads, cancelCalls, upstreamFailed, writeFailed,
    readAfterWriteFail, log, upstream, response, call, peer, worker>>

Terminated == pc \in {"done", "rejected"}

\* No buffered response yet; no function applied.
Pending == [status |-> "pending"]
NoCall == [fn |-> "none"]
\* No second request.
NoPeer == [pc |-> "none"]
\* No request has reached the fetch handler.
NoWorker == [served |-> 0]

\* index.ts:362-377: the state of a run that has not started.
RunInit ==
  /\ pc = "start"
  /\ buffer = <<>>
  /\ streamFinished = FALSE
  /\ hasSentRoleAssistant = FALSE
  /\ sink = "writable"
  /\ out = <<>>
  /\ delivered = 0
  /\ reads = 0
  /\ cancelCalls = 0
  /\ upstreamFailed = FALSE
  /\ writeFailed = FALSE
  /\ readAfterWriteFail = FALSE
  /\ log = <<>>

Init ==
  /\ hasBody \in BOOLEAN
  /\ upstream = <<>>
  /\ response = Pending
  /\ call = NoCall
  /\ peer = NoPeer
  /\ worker = NoWorker
  /\ RunInit

\* ------------------------------------------------------------------------
\* The background task of handleStreamingResponse (index.ts:367-504)
\* ------------------------------------------------------------------------
\* index.ts:368-372: no body; close the writer and return.
NoBody ==
  /\ pc = "start"
  /\ ~hasBody
  /\ sink' = IF WriterCloses(sink) THEN "closed" ELSE sink
  /\ pc' = IF WriterCloses(sink) THEN "done" ELSE "rejected"
  /\ UNCHANGED <<worker, peer, upstream, response, call, hasBody, buffer, streamFinished, hasSentRoleAssistant, out,
                 delivered, reads, cancelCalls, upstreamFailed, writeFailed,
                 readAfterWriteFail, log>>

\* index.ts:373-380: get the reader, initialise the locals, enter the loop.
Begin ==
  /\ pc = "start"
  /\ hasBody
  /\ pc' = "read"
  /\ UNCHANGED <<worker, peer, upstream, response, call, hasBody, buffer, streamFinished, hasSentRoleAssistant, sink,
                 out, delivered, reads, cancelCalls, upstreamFailed,
                 writeFailed, readAfterWriteFail, log>>

\* The next read comes before the lines that are left in the buffer.
AfterLinesReadFirst(buf, finished) ==
  IF ~finished THEN "read"
  ELSE IF IndexOfNL(buf) > 0 THEN "lines" ELSE "writeDone"

\* Where control goes when the inner loop finds no newline (index.ts:389,
\* index.ts:380).
AfterLines(buf, finished) ==
  IF IndexOfNL(buf) > 0 THEN "lines"
  ELSE IF finished THEN "writeDone" ELSE "read"

\* index.ts:381-387: reader.read() resolves with a push.  The pushes hold
\* whole characters, of which decoder.decode(value, {stream: true}) is the
\* text.
ReadPush ==
  /\ pc = "read"
  /\ \E n \in 1..(MaxPieces - delivered) :
       \E push \in PushesOf(n) :
         /\ buffer' = buffer \o push
         /\ delivered' = delivered + n
         /\ pc' = AfterLines(buffer \o push, streamFinished)
  /\ reads' = reads + 1
  /\ readAfterWriteFail' = (readAfterWriteFail \/ writeFailed)
  /\ UNCHANGED <<worker, peer, upstream, response, call, hasBody, streamFinished, hasSentRoleAssistant, sink, out,
                 cancelCalls, upstreamFailed, writeFailed, log>>

\* index.ts:381-385: reader.read() resolves with done.
ReadDone ==
  /\ pc = "read"
  /\ streamFinished' = TRUE
  /\ pc' = "writeDone"
  /\ reads' = reads + 1
  /\ readAfterWriteFail' = (readAfterWriteFail \/ writeFailed)
  /\ UNCHANGED <<worker, peer, upstream, response, call, hasBody, buffer, hasSentRoleAssistant, sink, out, delivered,
                 cancelCalls, upstreamFailed, writeFailed, log>>

\* index.ts:381, index.ts:497: reader.read() rejects; control enters catch.
ReadError ==
  /\ pc = "read"
  /\ upstreamFailed' = TRUE
  /\ pc' = "abort"
  /\ reads' = reads + 1
  /\ readAfterWriteFail' = (readAfterWriteFail \/ writeFailed)
  /\ UNCHANGED <<worker, peer, upstream, response, call, hasBody, buffer, streamFinished, hasSentRoleAssistant, sink,
                 out, delivered, cancelCalls, writeFailed, log>>

\* index.ts:389-493: one iteration of the inner loop.  The write of
\* index.ts:481 is inside the try of index.ts:397, so a rejected write is
\* caught at index.ts:489 and skips index.ts:486-488.
ProcessLine ==
  /\ pc = "lines"
  /\ LET newlineIndex == IndexOfNL(buffer)
         line == Trim(SubSeq(buffer, 1, newlineIndex - 1))
         rest == SubSeq(buffer, newlineIndex + 1, Len(buffer))
         dataContent == Trim(Substring5(line))
         decoded == /\ StartsWithData(line)
                    /\ dataContent # <<DONE>>
                    /\ JSONParses(dataContent)
         jsonData == JSONParse(dataContent)
         delta == BuildDelta(jsonData, hasSentRoleAssistant)
         finishReasonForChunk == FinishReasonForChunk(jsonData)
         send == ShouldSend(delta, finishReasonForChunk)
         accepted == send /\ WriterAccepts(sink)
         threw == send /\ ~WriterAccepts(sink)
         finished == IF decoded /\ ~threw /\ finishReasonForChunk # JSNull
                     THEN TRUE ELSE streamFinished
     IN /\ buffer' = rest
        /\ IF decoded
           THEN /\ hasSentRoleAssistant' =
                     (hasSentRoleAssistant \/ RoleCond(jsonData, hasSentRoleAssistant))
                /\ out' = IF accepted
                          THEN Enqueue(out, Chunk(delta, finishReasonForChunk))
                          ELSE out
                /\ writeFailed' = (writeFailed \/ threw)
                /\ log' = Append(log, [ev |-> jsonData, delta |-> delta,
                                       finish_reason |-> finishReasonForChunk,
                                       sent |-> send, accepted |-> accepted])
           ELSE UNCHANGED <<hasSentRoleAssistant, out, writeFailed, log>>
        /\ streamFinished' = finished
        /\ pc' = AfterLines(rest, finished)
  /\ UNCHANGED <<worker, peer, upstream, response, call, hasBody, sink, delivered, reads, cancelCalls, upstreamFailed,
                 readAfterWriteFail>>

\* The loop is left without writing the marker.
WriteDoneSkipped ==
  /\ pc = "writeDone"
  /\ pc' = "close"
  /\ UNCHANGED <<worker, peer, upstream, response, call, hasBody, buffer, streamFinished, hasSentRoleAssistant, sink,
                 out, delivered, reads, cancelCalls, upstreamFailed,
                 writeFailed, readAfterWriteFail, log>>

\* index.ts:496: the final marker.  A rejected write enters catch.
WriteDone ==
  /\ pc = "writeDone"
  /\ out' = IF WriterAccepts(sink) THEN Enqueue(out, DoneMarker) ELSE out
  /\ writeFailed' = (writeFailed \/ ~WriterAccepts(sink))
  /\ pc' = IF WriterAccepts(sink) THEN "close" ELSE "abort"
  /\ UNCHANGED <<worker, peer, upstream, response, call, hasBody, buffer, streamFinished, hasSentRoleAssistant, sink,
                 delivered, reads, cancelCalls, upstreamFailed,
                 readAfterWriteFail, log>>

\* index.ts:497-499: catch; abort the writer.
Abort ==
  /\ pc = "abort"
  /\ sink' = WriterAbort(sink)
  /\ pc' = "close"
  /\ UNCHANGED <<worker, peer, upstream, response, call, hasBody, buffer, streamFinished, hasSentRoleAssistant, out,
                 delivered, reads, cancelCalls, upstreamFailed, writeFailed,
                 readAfterWriteFail, log>>

\* index.ts:500-503: finally.  When writer.close() rejects, the exception
\* leaves the finally block before reader.cancel() and the task rejects.
Finally ==
  /\ pc = "close"
  /\ sink' = IF WriterCloses(sink) THEN "closed" ELSE sink
  /\ cancelCalls' = IF WriterCloses(sink) THEN cancelCalls + 1 ELSE cancelCalls
  /\ pc' = IF WriterCloses(sink) THEN "done" ELSE "rejected"
  /\ UNCHANGED <<worker, peer, upstream, response, call, hasBody, buffer, streamFinished, hasSentRoleAssistant, out,
                 delivered, reads, upstreamFailed, writeFailed,
                 readAfterWriteFail, log>>

\* The client cancels the readable side of the TransformStream (index.ts:506),
\* which errors the writable side.
DownstreamCancel ==
  /\ ~Terminated
  /\ sink = "writable"
  /\ sink' = "errored"
  /\ UNCHANGED <<worker, peer, upstream, response, call, pc, hasBody, buffer, streamFinished, hasSentRoleAssistant,
                 out, delivered, reads, cancelCalls, upstreamFailed,
                 writeFailed, readAfterWriteFail, log>>

Next ==
  \/ NoBody
  \/ Begin
  \/ ReadPush
  \/ ReadDone
  \/ ReadError
  \/ ProcessLine
  \/ WriteDone
  \/ Abort
  \/ Finally
  \/ DownstreamCancel

Spec == Init /\ [][Next]_vars

TypeOK ==
  /\ pc \in {"start", "read", "lines", "writeDone", "abort", "close", "done", "rejected"}
  /\ sink \in {"writable", "errored", "closed"}
  /\ delivered \in Nat
  /\ pc = "lines" => IndexOfNL(buffer) > 0

\* ------------------------------------------------------------------------
\* parseSSEResponse (index.ts:163-207)
\* ------------------------------------------------------------------------
\* String.prototype.split("\n")
RECURSIVE SplitNL(_)
SplitNL(s) ==
  IF IndexOfNL(s) = 0 THEN <<s>>
  ELSE <<SubSeq(s, 1, IndexOfNL(s) - 1)>>
       \o SplitNL(SubSeq(s, IndexOfNL(s) + 1, Len(s)))

\* JavaScript truthiness of the string-valued o[k]
Truthy(o, k) == Has(o, k) /\ o[k] # JSNull /\ o[k] # ""

\* The text replaces what was collected before.
AddTextOverwrites(fullText, jsonData) ==
  IF Truthy(jsonData, "text") THEN jsonData.text ELSE fullText

\* index.ts:181-183
AddText(fullText, jsonData) ==
  IF Truthy(jsonData, "text") THEN fullText \o jsonData.text ELSE fullText

\* The first finish_reason is kept.
FoldFinishReasonFirst(finishReason, jsonData) ==
  IF Has(jsonData, "finish_reason") /\ jsonData.finish_reason # JSNull
     /\ finishReason = JSNull
  THEN jsonData.finish_reason ELSE finishReason

\* index.ts:184-186
FoldFinishReason(finishReason, jsonData) ==
  IF Has(jsonData, "finish_reason") /\ jsonData.finish_reason # JSNull
  THEN jsonData.finish_reason ELSE finishReason

\* index.ts:191: tc.name || (tc.function && tc.function.name); a value that
\* is undefined is a key that is absent.
ParsedName(tc) ==
  IF Truthy(tc, "name") THEN [name |-> tc.name]
  ELSE IF Has(tc, "function") /\ Has(tc.function, "name")
       THEN [name |-> tc.function.name]
       ELSE EmptyObj

\* index.ts:192: tc.arguments || (tc.function && tc.function.arguments)
ParsedArguments(tc) ==
  IF Truthy(tc, "arguments") THEN [arguments |-> tc.arguments]
  ELSE IF Has(tc, "function") /\ Has(tc.function, "arguments")
       THEN [arguments |-> tc.function.arguments]
       ELSE EmptyObj

\* index.ts:189-193: the object built by the map
ParsedToolCall(tc) ==
  (IF Has(tc, "id") THEN [id |-> tc.id] ELSE EmptyObj)
  @@ ParsedName(tc) @@ ParsedArguments(tc)

\* index.ts:193: the filter
ParsedKept(tc) == Truthy(tc, "id") /\ Truthy(tc, "name") /\ Has(tc, "arguments")

\* index.ts:189-193
ParsedToolCalls(jsonData) ==
  SelectSeq([i \in 1..Len(jsonData.tool_calls) |->
               ParsedToolCall(jsonData.tool_calls[i])], ParsedKept)

\* index.ts:187
CollectCond(jsonData) ==
  /\ Has(jsonData, "finish_reason") /\ jsonData.finish_reason = "tool_calls"
  /\ HasToolCalls(jsonData)

\* index.ts:181-200: the body of the try for one decoded event.  acc holds
\* fullText and finishReason, and toolCalls when it is not null.
ParseEvent(acc, jsonData) ==
  [fullText |-> AddText(acc.fullText, jsonData),
   finishReason |-> FoldFinishReason(acc.finishReason, jsonData)]
  @@ (IF CollectCond(jsonData) /\ Len(ParsedToolCalls(jsonData)) > 0
      THEN [toolCalls |-> ParsedToolCalls(jsonData)]
      ELSE IF Has(acc, "toolCalls") THEN [toolCalls |-> acc.toolCalls]
      ELSE EmptyObj)

\* The record of a buffered line, when the line holds one (index.ts:174-179).
LineDecodes(line) ==
  /\ StartsWithData(line)
  /\ Trim(Substring5(line)) # <<DONE>>
  /\ JSONParses(Trim(Substring5(line)))

\* The first line that does not parse ends the loop.
RECURSIVE ParseLinesUntilError(_, _)
ParseLinesUntilError(acc, lines) ==
  IF lines = <<>> THEN acc
  ELSE IF LineDecodes(Head(lines))
       THEN ParseLinesUntilError(
              ParseEvent(acc, JSONParse(Trim(Substring5(Head(lines))))),
              Tail(lines))
       ELSE IF StartsWithData(Head(lines))
                 /\ Trim(Substring5(Head(lines))) # <<DONE>>
            THEN acc
            ELSE ParseLinesUntilError(acc, Tail(lines))

\* index.ts:173-205: the loop over the lines
RECURSIVE ParseLines(_, _)
ParseLines(acc, lines) ==
  IF lines = <<>> THEN acc
  ELSE IF LineDecodes(Head(lines))
       THEN ParseLines(ParseEvent(acc, JSONParse(Trim(Substring5(Head(lines))))),
                       Tail(lines))
       ELSE ParseLines(acc, Tail(lines))

\* index.ts:163-207
ParseSSEResponse(responseText) ==
  ParseLines([fullText |-> "", finishReason |-> JSNull],
             SplitNL(Trim(responseText)))

\* ------------------------------------------------------------------------
\* handleNonStreamingResponse (index.ts:519-611)
\* ------------------------------------------------------------------------
\* The folded value is passed on as it is.
FinalFinishReasonAsIs(finishReason) == finishReason

\* index.ts:537: finishReason || "stop"
FinalFinishReason(finishReason) ==
  IF finishReason # JSNull /\ finishReason # "" THEN finishReason ELSE "stop"

\* The collected tool calls are mapped in reverse order.
MessageToolCallsReversed(toolCalls) ==
  [i \in 1..Len(toolCalls) |->
     [id |-> toolCalls[Len(toolCalls) + 1 - i].id, type |-> "function",
      function |-> [name |-> toolCalls[Len(toolCalls) + 1 - i].name,
                    arguments |-> toolCalls[Len(toolCalls) + 1 - i].arguments]]]

\* index.ts:542-549, index.ts:559-566
MessageToolCalls(toolCalls) ==
  [i \in 1..Len(toolCalls) |->
     [id |-> toolCalls[i].id, type |-> "function",
      function |-> [name |-> toolCalls[i].name,
                    arguments |-> toolCalls[i].arguments]]]

\* index.ts:541, index.ts:554
HasParsedToolCalls(parsed) ==
  Has(parsed, "toolCalls") /\ Len(parsed.toolCalls) > 0

\* The fallback branch adds the tool calls and keeps the text as content.
MessageKeepsText(parsed) ==
  IF FinalFinishReason(parsed.finishReason) = "tool_calls"
  THEN [role |-> "assistant", content |-> JSNull,
        tool_calls |-> IF HasParsedToolCalls(parsed)
                       THEN MessageToolCalls(parsed.toolCalls) ELSE <<>>]
  ELSE IF HasParsedToolCalls(parsed)
       THEN [role |-> "assistant", content |-> parsed.fullText,
             tool_calls |-> MessageToolCalls(parsed.toolCalls)]
       ELSE [role |-> "assistant", content |-> parsed.fullText]

\* index.ts:528-568
Message(parsed) ==
  IF FinalFinishReason(parsed.finishReason) = "tool_calls"
  THEN [role |-> "assistant", content |-> JSNull,
        tool_calls |-> IF HasParsedToolCalls(parsed)
                       THEN MessageToolCalls(parsed.toolCalls) ELSE <<>>]
  ELSE IF HasParsedToolCalls(parsed)
       THEN [role |-> "assistant", content |-> JSNull,
             tool_calls |-> MessageToolCalls(parsed.toolCalls)]
       ELSE [role |-> "assistant", content |-> parsed.fullText]

\* index.ts:524, index.ts:570-603: what parseSSEResponse returned, and
\* choices[0] of the response (the other fields are constants)
NonStreamingResponse(responseText) ==
  [status |-> "done",
   parsed |-> ParseSSEResponse(responseText),
   message |-> Message(ParseSSEResponse(responseText)),
   finish_reason |-> FinalFinishReason(ParseSSEResponse(responseText).finishReason)]

\* ------------------------------------------------------------------------
\* Both modes on one upstream body that is fixed in advance
\* ------------------------------------------------------------------------
\* Bounds: the number of records of a body of text events, and of a body of
\* tool-call events.
MaxTextRecords == 3
MaxToolRecords == 4

EvHel == [text |-> "Hel"]
EvLo == [text |-> "lo"]
EvEmptyFinish == [finish_reason |-> ""]
EvToolFinish == [finish_reason |-> "tool_calls"]

TextLines ==
  {EventLine(EvHel), EventLine(EvLo), EventLine(EvStop),
   EventLine(EvEmptyFinish), EventLine(EvToolFinish), EventLine(EvNullFinish),
   GarbageLine}

FragLoc == [index |-> 0, function |-> [arguments |-> "{\"loc"]]
FragNY == [index |-> 0, function |-> [arguments |-> "\":\"NY\"}"]]
SummaryNY ==
  [id |-> "call_1", name |-> "get_weather", arguments |-> "{\"loc\":\"NY\"}"]
SummaryNoArgs == [id |-> "call_2", name |-> "now", arguments |-> ""]

EvLoc == [tool_calls |-> <<FragLoc>>]
EvNY == [tool_calls |-> <<FragNY>>]
EvSummaryNY == [finish_reason |-> "tool_calls", tool_calls |-> <<SummaryNY>>]
EvSummaryNoArgs ==
  [finish_reason |-> "tool_calls", tool_calls |-> <<SummaryNoArgs>>]
EvSummaryOnStop == [finish_reason |-> "stop", tool_calls |-> <<SummaryNY>>]

ToolLines ==
  {EventLine(EvFrag), EventLine(EvLoc), EventLine(EvNY), EventLine(EvSummaryNY),
   EventLine(EvSummaryNoArgs), EventLine(EvSummaryOnStop)}

\* The bodies of at most n records drawn from lines.
Bodies(lines, n) == UNION {[1..k -> lines] : k \in 0..n}

InitText ==
  /\ hasBody = TRUE
  /\ upstream \in Bodies(TextLines, MaxTextRecords)
  /\ response = Pending
  /\ call = NoCall
  /\ peer = NoPeer
  /\ worker = NoWorker
  /\ RunInit

InitTools ==
  /\ hasBody = TRUE
  /\ upstream \in Bodies(ToolLines, MaxToolRecords)
  /\ response = Pending
  /\ call = NoCall
  /\ peer = NoPeer
  /\ worker = NoWorker
  /\ RunInit

\* index.ts:381-387: reader.read() resolves with the next records of the
\* body, one or more of them in a push.
ReadNext ==
  /\ pc = "read"
  /\ \E n \in 1..(Len(upstream) - delivered) :
       LET push == Concat(SubSeq(upstream, delivered + 1, delivered + n))
       IN /\ buffer' = buffer \o push
          /\ delivered' = delivered + n
          /\ pc' = AfterLines(buffer \o push, streamFinished)
  /\ reads' = reads + 1
  /\ readAfterWriteFail' = (readAfterWriteFail \/ writeFailed)
  /\ UNCHANGED <<worker, peer, upstream, response, call, hasBody, streamFinished,
                 hasSentRoleAssistant, sink, out, cancelCalls, upstreamFailed,
                 writeFailed, log>>

\* index.ts:381-385: reader.read() resolves with done once the body has been
\* delivered.
ReadEnd ==
  /\ delivered = Len(upstream)
  /\ ReadDone

\* index.ts:519-611: handleNonStreamingResponse on the same body;
\* response.text() (index.ts:523) is the whole body.  It is run once the
\* streaming run has finished, the two requests being independent.
HandleNonStreaming ==
  /\ Terminated
  /\ response = Pending
  /\ response' = NonStreamingResponse(Concat(upstream))
  /\ UNCHANGED <<worker, peer, call, upstream, pc, hasBody, buffer, streamFinished,
                 hasSentRoleAssistant, sink, out, delivered, reads,
                 cancelCalls, upstreamFailed, writeFailed, readAfterWriteFail,
                 log>>

NextBody ==
  \/ Begin
  \/ ReadNext
  \/ ReadEnd
  \/ ProcessLine
  \/ WriteDone
  \/ Finally
  \/ HandleNonStreaming

SpecText == InitText /\ [][NextBody]_vars
SpecTools == InitTools /\ [][NextBody]_vars

\* ------------------------------------------------------------------------
\* The delta of one event, for events of every shape
\* ------------------------------------------------------------------------
\* Bound: the number of entries of tool_calls.
MaxFragments == 2

IdParts == {EmptyObj, [id |-> ""], [id |-> "call_1"]}
IndexParts == {EmptyObj, [index |-> 0]}
FunctionParts ==
  {EmptyObj, [function |-> EmptyObj], [function |-> [name |-> "f"]],
   [function |-> [arguments |-> "x"]],
   [function |-> [name |-> "f", arguments |-> "x"]]}

Fragments ==
  {i @@ x @@ f : i \in IdParts, x \in IndexParts, f \in FunctionParts}

TextParts == {EmptyObj, [text |-> ""], [text |-> "a"]}
FinishParts ==
  {EmptyObj, [finish_reason |-> "stop"], [finish_reason |-> "tool_calls"]}
ToolCallsParts ==
  {EmptyObj} \cup {[tool_calls |-> tcs] : tcs \in Bodies(Fragments, MaxFragments)}

ShapedEvents ==
  {t @@ f @@ c : t \in TextParts, f \in FinishParts, c \in ToolCallsParts}

InitDelta ==
  /\ hasBody = TRUE
  /\ upstream = <<>>
  /\ response = Pending
  /\ call \in {[fn |-> "BuildDelta", jsonData |-> ev, hasSentRoleAssistant |-> b]
                : ev \in ShapedEvents, b \in BOOLEAN}
  /\ peer = NoPeer
  /\ worker = NoWorker
  /\ RunInit

\* index.ts:400-465: the delta and the finish_reason of the chunk of the
\* drawn event.
ApplyBuildDelta ==
  /\ call.fn = "BuildDelta"
  /\ call' = [fn |-> "BuildDelta:done",
              jsonData |-> call.jsonData,
              hasSentRoleAssistant |-> call.hasSentRoleAssistant,
              delta |-> BuildDelta(call.jsonData, call.hasSentRoleAssistant),
              finish_reason |-> FinishReasonForChunk(call.jsonData)]
  /\ UNCHANGED <<worker, peer, upstream, response, pc, hasBody, buffer, streamFinished,
                 hasSentRoleAssistant, sink, out, delivered, reads,
                 cancelCalls, upstreamFailed, writeFailed, readAfterWriteFail,
                 log>>

NextDelta == ApplyBuildDelta

SpecDelta == InitDelta /\ [][NextDelta]_vars

\* ------------------------------------------------------------------------
\* handleNonStreamingResponse on bodies with summaries of several entries
\* ------------------------------------------------------------------------
\* Bound: the number of records of the body.
MaxMessageRecords == 3

SummaryNow == [id |-> "call_2", name |-> "now", arguments |-> "{}"]
EvSummaryTwo ==
  [finish_reason |-> "tool_calls", tool_calls |-> <<SummaryNY, SummaryNow>>]
EvLength == [text |-> "lo", finish_reason |-> "length"]

MessageLines ==
  {EventLine(EvHel), EventLine(EvLength), EventLine(EvEmptyFinish),
   EventLine(EvToolFinish), EventLine(EvSummaryNY), EventLine(EvSummaryTwo)}

InitMessage ==
  /\ hasBody = TRUE
  /\ upstream \in Bodies(MessageLines, MaxMessageRecords)
  /\ response = Pending
  /\ call = [fn |-> "handleNonStreamingResponse"]
  /\ peer = NoPeer
  /\ worker = NoWorker
  /\ RunInit

\* index.ts:519-611: handleNonStreamingResponse on the drawn body;
\* response.text() (index.ts:523) is the whole body.
ApplyNonStreaming ==
  /\ call.fn = "handleNonStreamingResponse"
  /\ response' = NonStreamingResponse(Concat(upstream))
  /\ call' = [fn |-> "handleNonStreamingResponse:done"]
  /\ UNCHANGED <<worker, peer, upstream, pc, hasBody, buffer, streamFinished,
                 hasSentRoleAssistant, sink, out, delivered, reads,
                 cancelCalls, upstreamFailed, writeFailed, readAfterWriteFail,
                 log>>

NextMessage == ApplyNonStreaming

SpecMessage == InitMessage /\ [][NextMessage]_vars

\* ------------------------------------------------------------------------
\* Both modes on a body of lines of every kind, split anywhere into pushes
\* ------------------------------------------------------------------------
\* Bound: the number of pieces of the body.
MaxFramePieces == 3

\* ' data: {"text":"lo"}' followed by a newline: white space before the prefix
IndentedLine == <<SP, DATA, SP, J(EvLo), NL>>
\* '{"text":"lo"}' followed by a newline: no prefix
NoPrefixLine == <<J(EvLo), NL>>
\* 'data: {"text":"lo"}' without a newline
Fragment == <<DATA, SP, J(EvLo)>>

FramePieces ==
  {EventLine(EvHel), EventLine(EvStop), DoneLine, BlankLine, IndentedLine,
   NoPrefixLine, Fragment}

InitFrames ==
  /\ hasBody = TRUE
  /\ upstream \in Bodies(FramePieces, MaxFramePieces)
  /\ response = Pending
  /\ call = NoCall
  /\ peer = NoPeer
  /\ worker = NoWorker
  /\ RunInit

\* index.ts:381-387: reader.read() resolves with the next part of the text
\* of the body, cut anywhere; delivered counts the tokens pushed so far.
ReadSplit ==
  /\ pc = "read"
  /\ \E n \in 1..(Len(Concat(upstream)) - delivered) :
       LET push == SubSeq(Concat(upstream), delivered + 1, delivered + n)
       IN /\ buffer' = buffer \o push
          /\ delivered' = delivered + n
          /\ pc' = AfterLines(buffer \o push, streamFinished)
  /\ reads' = reads + 1
  /\ readAfterWriteFail' = (readAfterWriteFail \/ writeFailed)
  /\ UNCHANGED <<worker, peer, upstream, response, call, hasBody, streamFinished,
                 hasSentRoleAssistant, sink, out, cancelCalls, upstreamFailed,
                 writeFailed, log>>

\* index.ts:381-385: reader.read() resolves with done once the whole text
\* has been pushed.
ReadEndOfText ==
  /\ delivered = Len(Concat(upstream))
  /\ ReadDone

NextFrames ==
  \/ Begin
  \/ ReadSplit
  \/ ReadEndOfText
  \/ ProcessLine
  \/ WriteDone
  \/ Finally
  \/ HandleNonStreaming

SpecFrames == InitFrames /\ [][NextFrames]_vars

\* ------------------------------------------------------------------------
\* Two streaming requests transcoded concurrently
\* ------------------------------------------------------------------------
\* Bound: the number of records of the body of each request.
MaxPairRecords == 2

PairLines == {EventLine(EvHel), EventLine(EvStop), EventLine(EvFrag)}

\* index.ts:362-377: the writer and the locals of a call of
\* handleStreamingResponse that has not started, on the given body.
NewRun(body) ==
  [pc |-> "start", body |-> body, buffer |-> <<>>, streamFinished |-> FALSE,
   hasSentRoleAssistant |-> FALSE, sink |-> "writable", out |-> <<>>,
   delivered |-> 0]

InitPair ==
  /\ hasBody = TRUE
  /\ upstream \in Bodies(PairLines, MaxPairRecords)
  /\ response = Pending
  /\ call = NoCall
  /\ peer \in {NewRun(body) : body \in Bodies(PairLines, MaxPairRecords)}
  /\ worker = NoWorker
  /\ RunInit

\* The flag is declared in the module and seen by every request.
ModuleScoped(own, other) == own \/ other

\* index.ts:375-377: buffer, streamFinished and hasSentRoleAssistant are
\* declared inside the call; a request sees its own.
RequestScoped(own, other) == own

\* index.ts:389-493: one iteration of the inner loop on the locals r of a
\* run whose writes are accepted.
RunLine(r) ==
  LET newlineIndex == IndexOfNL(r.buffer)
      line == Trim(SubSeq(r.buffer, 1, newlineIndex - 1))
      rest == SubSeq(r.buffer, newlineIndex + 1, Len(r.buffer))
      dataContent == Trim(Substring5(line))
      decoded == /\ StartsWithData(line)
                 /\ dataContent # <<DONE>>
                 /\ JSONParses(dataContent)
      jsonData == JSONParse(dataContent)
      delta == BuildDelta(jsonData, r.hasSentRoleAssistant)
      finishReasonForChunk == FinishReasonForChunk(jsonData)
  IN [r EXCEPT
        !.buffer = rest,
        !.hasSentRoleAssistant =
           IF decoded THEN (@ \/ RoleCond(jsonData, @)) ELSE @,
        !.out = IF decoded /\ ShouldSend(delta, finishReasonForChunk)
                THEN Enqueue(@, Chunk(delta, finishReasonForChunk))
                ELSE @,
        !.streamFinished =
           IF decoded /\ finishReasonForChunk # JSNull THEN TRUE ELSE @]

\* index.ts:389: the inner loop, until the buffer holds no newline.
RECURSIVE Drain(_)
Drain(r) == IF IndexOfNL(r.buffer) = 0 THEN r ELSE Drain(RunLine(r))

\* index.ts:380-496: the loop of a run that is alone, each read resolving
\* with the next record of the body; the records it writes.
RECURSIVE RunAlone(_, _)
RunAlone(r, body) ==
  IF r.streamFinished \/ body = <<>>
  THEN Enqueue(r.out, DoneMarker)
  ELSE RunAlone(Drain([r EXCEPT !.buffer = @ \o Head(body)]), Tail(body))

AloneOut(body) == RunAlone(NewRun(body), body)

\* index.ts:381-387: reader.read() of the first request resolves with the
\* next record of its body.
ReadRecord ==
  /\ pc = "read"
  /\ delivered < Len(upstream)
  /\ buffer' = buffer \o upstream[delivered + 1]
  /\ delivered' = delivered + 1
  /\ pc' = AfterLines(buffer \o upstream[delivered + 1], streamFinished)
  /\ reads' = reads + 1
  /\ readAfterWriteFail' = (readAfterWriteFail \/ writeFailed)
  /\ UNCHANGED <<worker, peer, upstream, response, call, hasBody, streamFinished,
                 hasSentRoleAssistant, sink, out, cancelCalls, upstreamFailed,
                 writeFailed, log>>

\* What a step of the second request leaves alone.
PeerOnly ==
  UNCHANGED <<pc, hasBody, buffer, streamFinished, hasSentRoleAssistant, sink,
              out, delivered, reads, cancelCalls, upstreamFailed, writeFailed,
              readAfterWriteFail, log, upstream, response, call, worker>>

\* index.ts:373-380, second request
PeerBegin ==
  /\ peer.pc = "start"
  /\ peer' = [peer EXCEPT !.pc = "read"]
  /\ PeerOnly

\* index.ts:381-387, second request
PeerRead ==
  /\ peer.pc = "read"
  /\ peer.delivered < Len(peer.body)
  /\ peer' = [peer EXCEPT
                !.buffer = @ \o peer.body[peer.delivered + 1],
                !.delivered = @ + 1,
                !.pc = AfterLines(peer.buffer \o peer.body[peer.delivered + 1],
                                  peer.streamFinished)]
  /\ PeerOnly

\* index.ts:381-385, second request
PeerReadEnd ==
  /\ peer.pc = "read"
  /\ peer.delivered = Len(peer.body)
  /\ peer' = [peer EXCEPT !.streamFinished = TRUE, !.pc = "writeDone"]
  /\ PeerOnly

\* index.ts:389-493, second request
PeerLine ==
  /\ peer.pc = "lines"
  /\ LET seen == [peer EXCEPT
                    !.hasSentRoleAssistant =
                       RequestScoped(@, hasSentRoleAssistant)]
         r == RunLine(seen)
     IN peer' = [r EXCEPT !.pc = AfterLines(r.buffer, r.streamFinished)]
  /\ PeerOnly

\* index.ts:496, second request
PeerWriteDone ==
  /\ peer.pc = "writeDone"
  /\ peer' = [peer EXCEPT !.out = Enqueue(@, DoneMarker), !.pc = "close"]
  /\ PeerOnly

\* index.ts:500-503, second request
PeerFinally ==
  /\ peer.pc = "close"
  /\ peer' = [peer EXCEPT !.sink = "closed", !.pc = "done"]
  /\ PeerOnly

NextPair ==
  \/ Begin
  \/ ReadRecord
  \/ ReadEnd
  \/ ProcessLine
  \/ WriteDone
  \/ Finally
  \/ PeerBegin
  \/ PeerRead
  \/ PeerReadEnd
  \/ PeerLine
  \/ PeerWriteDone
  \/ PeerFinally

SpecPair == InitPair /\ [][NextPair]_vars

\* ------------------------------------------------------------------------
\* A chunk written downstream and read back
\* ------------------------------------------------------------------------
\* Bound: the number of characters of delta.content.
MaxChars == 2

\* The characters of a content: a letter, a blank, a newline, a double quote
\* and a backslash.
Chars == {"a", " ", "\n", "\"", "\\"}

\* The text of a JSON document, character by character where a string is
\* written: the opening brace with the members before the string, the double
\* quote, the backslash, a plain character, the closing brace.
LBRACE(v) == [t |-> "{", v |-> v]
RBRACE == [t |-> "}"]
QUOTE == [t |-> "\""]
BACKSLASH == [t |-> "\\"]
Ch(c) == [t |-> "char", c |-> c]

\* The newline is written as it is.
EscapeCharRaw(c) ==
  IF c = "\n" THEN <<NL>>
  ELSE IF c = "\"" THEN <<BACKSLASH, QUOTE>>
  ELSE IF c = "\\" THEN <<BACKSLASH, BACKSLASH>>
  ELSE IF c = " " THEN <<SP>>
  ELSE <<Ch(c)>>

\* JSON.stringify of one character of a string (QuoteJSONString)
EscapeChar(c) ==
  IF c = "\n" THEN <<BACKSLASH, Ch("n")>>
  ELSE IF c = "\"" THEN <<BACKSLASH, QUOTE>>
  ELSE IF c = "\\" THEN <<BACKSLASH, BACKSLASH>>
  ELSE IF c = " " THEN <<SP>>
  ELSE <<Ch(c)>>

\* JSON.stringify of a string
QuoteString(chars) ==
  <<QUOTE>> \o Concat([i \in 1..Len(chars) |-> EscapeChar(chars[i])]) \o <<QUOTE>>

WithoutContent(delta) == [k \in DOMAIN delta \ {"content"} |-> delta[k]]

\* JSON.stringify(chunkPayload), index.ts:482; the content of the delta is
\* the string that is written out.
JSONStringify(payload) ==
  IF Has(payload.delta, "content")
  THEN <<LBRACE([payload EXCEPT !.delta = WithoutContent(@)])>>
       \o QuoteString(payload.delta.content) \o <<RBRACE>>
  ELSE <<LBRACE(payload), RBRACE>>

\* index.ts:481-483: the record written for a chunk
EncodeChunk(payload) == <<DATA, SP>> \o JSONStringify(payload) \o <<NL, NL>>

\* The characters between the quotes are those of a JSON string.
RECURSIVE IsEscaped(_)
IsEscaped(ts) ==
  IF ts = <<>> THEN TRUE
  ELSE IF Head(ts) = BACKSLASH
       THEN /\ Len(ts) >= 2
            /\ ts[2] \in {Ch("n"), QUOTE, BACKSLASH}
            /\ IsEscaped(SubSeq(ts, 3, Len(ts)))
       ELSE /\ (Head(ts) = SP \/ Head(ts).t = "char")
            /\ IsEscaped(Tail(ts))

\* The string that the characters between the quotes stand for.
RECURSIVE Unescape(_)
Unescape(ts) ==
  IF ts = <<>> THEN <<>>
  ELSE IF Head(ts) = BACKSLASH
       THEN <<(IF ts[2] = QUOTE THEN "\""
               ELSE IF ts[2] = BACKSLASH THEN "\\" ELSE "\n")>>
            \o Unescape(SubSeq(ts, 3, Len(ts)))
       ELSE <<(IF Head(ts) = SP THEN " " ELSE Head(ts).c)>> \o Unescape(Tail(ts))

\* JSON.parse (index.ts:399) succeeds on the text of one document.
JSONTextParses(s) ==
  /\ Len(s) >= 2
  /\ s[1].t = "{"
  /\ s[Len(s)] = RBRACE
  /\ \/ Len(s) = 2
     \/ /\ Len(s) >= 4
        /\ s[2] = QUOTE
        /\ s[Len(s) - 1] = QUOTE
        /\ IsEscaped(SubSeq(s, 3, Len(s) - 2))

JSONTextParse(s) ==
  IF Len(s) = 2 THEN s[1].v
  ELSE [s[1].v EXCEPT
          !.delta = @ @@ [content |-> Unescape(SubSeq(s, 3, Len(s) - 2))]]

\* index.ts:389-399: the lines of a text and the documents decoded from
\* them, in order.
RECURSIVE ReadRecords(_)
ReadRecords(buf) ==
  IF IndexOfNL(buf) = 0 THEN <<>>
  ELSE LET line == Trim(SubSeq(buf, 1, IndexOfNL(buf) - 1))
           rest == SubSeq(buf, IndexOfNL(buf) + 1, Len(buf))
           dataContent == Trim(Substring5(line))
           decoded == /\ StartsWithData(line)
                      /\ dataContent # <<DONE>>
                      /\ JSONTextParses(dataContent)
       IN (IF decoded THEN <<JSONTextParse(dataContent)>> ELSE <<>>)
          \o ReadRecords(rest)

Contents == UNION {[1..n -> Chars] : n \in 0..MaxChars}

\* The chunks of index.ts:469-480 with a content that is a string or absent.
WrittenChunks ==
  {Chunk(r @@ c @@ t, f) :
     r \in {EmptyObj, [role |-> "assistant"]},
     c \in {EmptyObj} \cup {[content |-> chars] : chars \in Contents},
     t \in {EmptyObj, [tool_calls |-> <<ToolCallDelta(FragArgs)>>]},
     f \in {JSNull, "stop"}}

InitRoundTrip ==
  /\ hasBody = TRUE
  /\ upstream = <<>>
  /\ response = Pending
  /\ call \in {[fn |-> "roundTrip", chunk |-> chunk] : chunk \in WrittenChunks}
  /\ peer = NoPeer
  /\ worker = NoWorker
  /\ RunInit

\* index.ts:481-483, then index.ts:389-399 on the text written
ApplyRoundTrip ==
  /\ call.fn = "roundTrip"
  /\ call' = [fn |-> "roundTrip:done",
              chunk |-> call.chunk,
              text |-> EncodeChunk(call.chunk),
              records |-> ReadRecords(EncodeChunk(call.chunk))]
  /\ UNCHANGED <<worker, peer, upstream, response, pc, hasBody, buffer, streamFinished,
                 hasSentRoleAssistant, sink, out, delivered, reads,
                 cancelCalls, upstreamFailed, writeFailed, readAfterWriteFail,
                 log>>

NextRoundTrip == ApplyRoundTrip

SpecRoundTrip == InitRoundTrip /\ [][NextRoundTrip]_vars

\* ---------------------------------------------------------------------
\* The Worker's fetch handler: configuration check, CORS preflight,
\* API key validation, routing, model directory and relay.
\* ---------------------------------------------------------------------

\* Requests served in one behaviour.
MaxRequests == 2

DEFAULT_MODEL_ID == "openai-gpt-4o-mini"
DEFAULT_PROVIDER == "openai"
DEFAULT_INTERNAL_MODEL == "gpt-4o-mini"

\* Header and secret texts are sequences of pieces; the text "Bearer " is
\* the two pieces "Bearer", " ".
ApiKey == <<"k">>

\* env: a key is present when the binding is set; API_KEY may be set to "".
Envs ==
  {t @@ k :
     t \in {EmptyObj, [RAYCAST_BEARER_TOKEN |-> <<"t">>]},
     k \in {EmptyObj, [API_KEY |-> <<>>], [API_KEY |-> ApiKey]}}

\* !env.X is false only for a binding set to a non-empty text.
IsSet(env, k) == Has(env, k) /\ env[k] # <<>>

AuthorizationHeaders ==
  {<<"Bearer", " ">> \o ApiKey,
   <<"Bearer", " ", "x">>,
   ApiKey,
   <<"Bearer", " ">> \o ApiKey \o <<"x">>}

\* Bodies of a chat-completion request: text that is not JSON, or an
\* object with or without messages and model.
ChatBodies ==
  {[malformed |-> TRUE], EmptyObj, [messages |-> <<>>, model |-> "gpt-4o"]} \cup
  {[messages |-> <<"hi">>] @@ i :
     i \in {EmptyObj, [model |-> "gpt-4o"], [model |-> "nope"]}}

Methods == {"OPTIONS", "GET", "POST"}
Paths == {"/v1/chat/completions", "/v1/models", "/health", "/"}

\* A POST to the chat path carries a body, no other request does.
IsChat(m, p) == m = "POST" /\ p = "/v1/chat/completions"

Requests ==
  {[method |-> m, path |-> p] @@ a @@ b :
     m \in Methods, p \in Paths,
     a \in {EmptyObj} \cup {[Authorization |-> h] : h \in AuthorizationHeaders},
     b \in {EmptyObj} \cup {[body |-> c] : c \in ChatBodies}}

ServedRequests ==
  {req \in Requests : Has(req, "body") <=> IsChat(req.method, req.path)}

\* What GET RAYCAST_MODELS_URL yields after the filter of index.ts:65-82:
\* a failure (not ok, or no models field) or a map from ids to ModelInfo.
DirectoryReplies ==
  {[ok |-> FALSE],
   [ok |-> TRUE, models |-> EmptyObj],
   [ok |-> TRUE, models |-> ("gpt-4o" :> [provider |-> "openai", model |-> "gpt-4o"])],
   [ok |-> TRUE,
    models |-> ("gpt-4o" :> [provider |-> "openai", model |-> "gpt-4o"])
               @@ (DEFAULT_MODEL_ID :> [provider |-> "openai", model |-> "gpt-4o-mini"])]}

\* index.ts:34-92: every failure yields the empty map.
FetchModels(reply) == IF reply.ok THEN reply.models ELSE EmptyObj

ValidateApiKeyPrefix(req, env) ==
  IF ~IsSet(env, "API_KEY") THEN TRUE
  ELSE /\ Has(req, "Authorization")
       /\ Len(req.Authorization) >= 2 + Len(env.API_KEY)
       /\ SubSeq(req.Authorization, 1, 2) = <<"Bearer", " ">>
       /\ SubSeq(req.Authorization, 3, 2 + Len(env.API_KEY)) = env.API_KEY

\* index.ts:112-119: startsWith("Bearer "), substring(7), ===
ValidateApiKey(req, env) ==
  IF ~IsSet(env, "API_KEY") THEN TRUE
  ELSE /\ Has(req, "Authorization")
       /\ Len(req.Authorization) >= 2
       /\ SubSeq(req.Authorization, 1, 2) = <<"Bearer", " ">>
       /\ SubSeq(req.Authorization, 3, Len(req.Authorization)) = env.API_KEY

\* index.ts:124-133
GetProviderInfo(modelId, models) ==
  IF modelId \in DOMAIN models
    THEN models[modelId]
    ELSE [provider |-> DEFAULT_PROVIDER, model |-> DEFAULT_INTERNAL_MODEL]

\* index.ts:225 the model of the request, DEFAULT_MODEL_ID when absent
RequestedModelId(body) ==
  IF Has(body, "model") THEN body.model ELSE DEFAULT_MODEL_ID

ModelsHasAlways(models, modelId) == TRUE

\* index.ts:251 models.has(requestedModelId)
ModelsHas(models, modelId) == modelId \in DOMAIN models

\* A response with the upstream calls made while producing it.
Answer(status, fetched, relayed) ==
  [status |-> status, fetched |-> fetched, relayed |-> relayed]

\* index.ts:212-353; a relayed request also records the provider and the
\* model sent upstream.
HandleChatCompletions(req, reply, relayOk) ==
  LET body == req.body
      models == FetchModels(reply)
      info == GetProviderInfo(RequestedModelId(body), models)
  IN  IF Has(body, "malformed") THEN Answer(500, FALSE, FALSE)
      ELSE IF ~Has(body, "messages") \/ Len(body.messages) = 0
        THEN Answer(400, FALSE, FALSE)
      ELSE IF DOMAIN models = {} THEN Answer(500, TRUE, FALSE)
      ELSE IF ~ModelsHas(models, RequestedModelId(body))
        THEN Answer(400, TRUE, FALSE)
      ELSE Answer(IF relayOk THEN 200 ELSE 502, TRUE, TRUE)
           @@ [provider |-> info.provider, model |-> info.model]

\* index.ts:616-642
HandleModels(reply) == Answer(200, TRUE, FALSE)

\* index.ts:680-737
Fetch(req, env, reply, relayOk) ==
  IF ~IsSet(env, "RAYCAST_BEARER_TOKEN") THEN Answer(500, FALSE, FALSE)
  ELSE IF req.method = "OPTIONS" THEN Answer(200, FALSE, FALSE)
  ELSE IF ~ValidateApiKey(req, env) THEN Answer(401, FALSE, FALSE)
  ELSE IF req.path = "/v1/chat/completions" /\ req.method = "POST"
    THEN HandleChatCompletions(req, reply, relayOk)
  ELSE IF req.path = "/v1/models" /\ req.method = "GET"
    THEN HandleModels(reply)
  ELSE IF req.path = "/health" /\ req.method = "GET"
    THEN Answer(200, FALSE, FALSE)
  ELSE Answer(404, FALSE, FALSE)

InitGateway ==
  /\ hasBody = TRUE
  /\ upstream = <<>>
  /\ response = Pending
  /\ call = NoCall
  /\ peer = NoPeer
  /\ worker \in {[env |-> env, served |-> 0, fetches |-> 0,
                  directoryFetched |-> FALSE, last |-> EmptyObj] :
                   env \in Envs}
  /\ RunInit

\* One request through the fetch handler. fetches counts the calls to
\* RAYCAST_MODELS_URL; directoryFetched says that an earlier call returned
\* a directory with models; last keeps the request, its response and the
\* directory fetchModels returned for it.
ServeRequest ==
  /\ worker.served < MaxRequests
  /\ \E req \in ServedRequests, reply \in DirectoryReplies, relayOk \in BOOLEAN :
       LET r == Fetch(req, worker.env, reply, relayOk) IN
       worker' =
         [env |-> worker.env,
          served |-> worker.served + 1,
          fetches |-> worker.fetches + (IF r.fetched THEN 1 ELSE 0),
          directoryFetched |->
            \/ worker.directoryFetched
            \/ r.fetched /\ DOMAIN FetchModels(reply) # {},
          last |-> [request |-> req, response |-> r]
                   @@ (IF r.fetched THEN [models |-> FetchModels(reply)]
                                    ELSE EmptyObj)]
  /\ UNCHANGED <<peer, upstream, response, call, pc, hasBody, buffer,
                 streamFinished, hasSentRoleAssistant, sink, out, delivered,
                 reads, cancelCalls, upstreamFailed, writeFailed,
                 readAfterWriteFail, log>>

NextGateway == ServeRequest

SpecGateway == InitGateway /\ [][NextGateway]_vars

\* ---------------------------------------------------------------------
\* convertMessages on message lists of every shape
\* ---------------------------------------------------------------------
\* Bound: the number of messages of a request.
MaxMessages == 3

Roles == {"system", "user", "assistant", "tool"}
MessageContents == {"hi", "", JSNull}
OpenAIMessages == {[role |-> r, content |-> c] : r \in Roles, c \in MessageContents}
MessageLists == UNION {[1..n -> OpenAIMessages] : n \in 0..MaxMessages}

\* A system message sets the instruction wherever it stands.
ConvertStepAnySystem(acc, msg, index) ==
  IF msg.role = "system"
  THEN [acc EXCEPT !.systemInstruction = msg.content]
  ELSE IF msg.role = "user" \/ msg.role = "assistant"
  THEN [acc EXCEPT !.raycastMessages =
          Append(@, [author |-> msg.role, content |-> [text |-> msg.content]])]
  ELSE acc

\* index.ts:146-154: the callback of forEach on one message
ConvertStep(acc, msg, index) ==
  IF msg.role = "system" /\ index = 0
  THEN [acc EXCEPT !.systemInstruction = msg.content]
  ELSE IF msg.role = "user" \/ msg.role = "assistant"
  THEN [acc EXCEPT !.raycastMessages =
          Append(@, [author |-> msg.role, content |-> [text |-> msg.content]])]
  ELSE acc

\* index.ts:145: forEach, from the message at the given index on
RECURSIVE ForEachMessage(_, _, _)
ForEachMessage(acc, msgs, index) ==
  IF index = Len(msgs) THEN acc
  ELSE ForEachMessage(ConvertStep(acc, msgs[index + 1], index), msgs, index + 1)

\* index.ts:138-158
ConvertMessages(openaiMessages) ==
  ForEachMessage([raycastMessages |-> <<>>, systemInstruction |-> "markdown"],
                 openaiMessages, 0)

InitConvert ==
  /\ hasBody = TRUE
  /\ upstream = <<>>
  /\ response = Pending
  /\ call \in {[fn |-> "convertMessages", messages |-> m] : m \in MessageLists}
  /\ peer = NoPeer
  /\ worker = NoWorker
  /\ RunInit

\* index.ts:301 convertMessages(messages)
ApplyConvertMessages ==
  /\ call.fn = "convertMessages"
  /\ call' = [fn |-> "convertMessages:done",
              messages |-> call.messages,
              result |-> ConvertMessages(call.messages)]
  /\ UNCHANGED <<worker, peer, upstream, response, pc, hasBody, buffer,
                 streamFinished, hasSentRoleAssistant, sink, out, delivered,
                 reads, cancelCalls, upstreamFailed, writeFailed,
                 readAfterWriteFail, log>>

NextConvert == ApplyConvertMessages

SpecConvert == InitConvert /\ [][NextConvert]_vars


\* ------------------------------------------------------------------------
\* Properties of the streaming run
\* ------------------------------------------------------------------------
CountDone(s) == Cardinality({i \in DOMAIN s : s[i] = DoneMarker})

\* The entries of log whose chunk the writer accepted.
Emitted == {i \in DOMAIN log : log[i].accepted}

\* The event carries text or tool-call entries (index.ts:403).
Carries(ev) == Has(ev, "text") \/ HasToolCalls(ev)

\* C1, as stated: whatever the upstream does (clean end, end after a
\* finish_reason, transport error, missing body), a finished run has written
\* the terminal marker exactly once, as its last record.
C1_MarkerOnceOnEveryRun ==
  Terminated => (CountDone(out) = 1 /\ out[Len(out)] = DoneMarker)

\* C1, amended: the terminal marker is written at most once and no record is
\* written after it; a run with a body whose reads never reject and whose
\* writes are all accepted has written it exactly once when it finishes; a
\* run whose read rejected or whose body is missing never writes it.
C1_MarkerOnceOnCleanEnd ==
  /\ CountDone(out) <= 1
  /\ \A i \in DOMAIN out : out[i] = DoneMarker => i = Len(out)
  /\ (Terminated /\ hasBody /\ ~upstreamFailed /\ ~writeFailed)
       => CountDone(out) = 1
  /\ (~hasBody \/ upstreamFailed) => CountDone(out) = 0

C1_Witness ==
  /\ Terminated /\ hasBody /\ ~upstreamFailed /\ ~writeFailed
  /\ Len(out) >= 3
  /\ out[Len(out)] = DoneMarker
  /\ \E i \in DOMAIN log : log[i].finish_reason # JSNull

\* C2: once an event with a non-null finish_reason has been processed, no
\* chunk is emitted for any event that follows it.
C2_NoChunkAfterFinish ==
  \A i, j \in DOMAIN log :
    (i < j /\ log[i].finish_reason # JSNull) => ~log[j].accepted

\* C3: no upstream read is performed after a downstream write was rejected.
C3_NoReadAfterFailedWrite == ~readAfterWriteFail

\* C4: a finished transcoding run has called reader.cancel() exactly once.
C4_CancelExactlyOnce == (Terminated /\ hasBody) => cancelCalls = 1

\* C5: when a read of the upstream rejects, the outgoing stream is never
\* closed cleanly, it is errored once the catch block has run, and it holds
\* no terminal marker.
C5_UpstreamFailureErrorsStream ==
  upstreamFailed =>
    /\ sink # "closed"
    /\ pc # "abort" => sink = "errored"
    /\ CountDone(out) = 0

C5_Witness ==
  /\ upstreamFailed /\ Terminated
  /\ sink = "errored"
  /\ ~writeFailed
  /\ Len(out) > 0

\* C6: with no upstream body the finished run leaves the outgoing stream
\* errored, not closed, and has read nothing.
C6_MissingBodyErrorsStream ==
  (~hasBody /\ Terminated) => (sink = "errored" /\ reads = 0)

\* C7: among the emitted chunks at most one has delta.role, the chunk with
\* the role is the first emitted one whose event carries text or tool-call
\* entries, and no chunk with content or tool_calls precedes it.
C7_RoleOnceOnFirstDataChunk ==
  /\ \A i, j \in Emitted :
       (Has(log[i].delta, "role") /\ Has(log[j].delta, "role")) => i = j
  /\ \A i \in Emitted :
       Has(log[i].delta, "role") <=>
         (Carries(log[i].ev) /\ \A j \in Emitted : j < i => ~Carries(log[j].ev))
  /\ \A i \in Emitted :
       (Has(log[i].delta, "content") \/ Has(log[i].delta, "tool_calls"))
         => \E j \in Emitted : j <= i /\ Has(log[j].delta, "role")

C7_Witness ==
  \E i, j \in Emitted :
    /\ i < j
    /\ Has(log[i].delta, "role")
    /\ Carries(log[j].ev)
    /\ ~Has(log[j].delta, "role")
    /\ \E k \in DOMAIN log : k < i /\ ~Carries(log[k].ev)

\* C8: an emitted chunk with delta.tool_calls has content null when it has
\* the role and no content key when it has not, also when the event had text.
C8_ToolCallsExcludeContent ==
  \A i \in Emitted :
    Has(log[i].delta, "tool_calls") =>
      IF Has(log[i].delta, "role")
      THEN Has(log[i].delta, "content") /\ log[i].delta.content = JSNull
      ELSE ~Has(log[i].delta, "content")

C8_Witness ==
  \E i, j \in Emitted :
    /\ Has(log[i].delta, "tool_calls") /\ Has(log[i].delta, "role")
    /\ Has(log[j].delta, "tool_calls") /\ ~Has(log[j].delta, "role")
    /\ Has(log[j].ev, "text")

\* C9: the chunk sent for an event whose finish_reason is "tool_calls" has
\* no delta.tool_calls, whatever the shape of the event's entries.
C9_SummaryNotForwarded ==
  \A i \in DOMAIN log :
    (log[i].sent /\ log[i].finish_reason = "tool_calls")
      => ~Has(log[i].delta, "tool_calls")

C9_Witness ==
  \E i \in Emitted :
    /\ log[i].ev = EvFinFrag
    /\ log[i].finish_reason = "tool_calls"
    /\ \E k \in Emitted : k < i /\ Has(log[k].delta, "tool_calls")

\* C10: a chunk is sent for a decoded event exactly when its delta has a key
\* or its finish_reason is not null, and no record of the outgoing stream is
\* a chunk with an empty delta and a null finish_reason.
C10_SentIffDeltaOrFinish ==
  /\ \A i \in DOMAIN log :
       log[i].sent <=>
         (DOMAIN log[i].delta # {} \/ log[i].finish_reason # JSNull)
  /\ \A i \in DOMAIN out :
       out[i] # DoneMarker =>
         ~(DOMAIN out[i].delta = {} /\ out[i].finish_reason = JSNull)

C10_Witness ==
  /\ \E i \in DOMAIN log : ~log[i].sent
  /\ \E i \in Emitted :
       DOMAIN log[i].delta = {} /\ log[i].finish_reason # JSNull

\* ------------------------------------------------------------------------
\* Properties of the two modes on one body, and of the delta of one event
\* ------------------------------------------------------------------------
\* The events of the well-formed records of the body, in order.
IsEventLine(line) == Len(line) = 4 /\ line[3].t = "json"
BodyEvents ==
  LET records == SelectSeq(upstream, IsEventLine)
  IN [i \in 1..Len(records) |-> records[i][3].v]

IsChunk(record) == record.kind = "chunk"

\* The chunks of the accepted entries of a log, in order.
RECURSIVE EmittedChunks(_)
EmittedChunks(entries) ==
  IF entries = <<>> THEN <<>>
  ELSE (IF Head(entries).accepted
        THEN <<Chunk(Head(entries).delta, Head(entries).finish_reason)>>
        ELSE <<>>)
       \o EmittedChunks(Tail(entries))

\* C11: the events are decoded in the order of the body, each decoded event
\* has at most one chunk, and the chunks are written in the order of their
\* events, one record per chunk.
C11_ChunksInDecodeOrder ==
  /\ Len(log) <= Len(BodyEvents)
  /\ \A i \in DOMAIN log : log[i].ev = BodyEvents[i]
  /\ SelectSeq(out, IsChunk) = EmittedChunks(log)

C11_Witness ==
  /\ Len(SelectSeq(out, IsChunk)) >= 2
  /\ out[1] # out[2]
  /\ \E j \in DOMAIN log : ~log[j].sent /\ j > 1 /\ j < Len(log)

\* C12: a streaming step on a record that is not JSON only removes the line
\* from the buffer and goes on; a run on a body without finish_reason decodes
\* every well-formed record of it; the buffered response is the response to
\* the body without its malformed records.
C12_MalformedRecordDropped ==
  /\ [][(pc = "lines" /\ SubSeq(buffer, 1, IndexOfNL(buffer)) = GarbageLine)
          => /\ buffer' = SubSeq(buffer, Len(GarbageLine) + 1, Len(buffer))
             /\ pc' = AfterLines(buffer', streamFinished)
             /\ UNCHANGED <<out, log, hasSentRoleAssistant, streamFinished,
                            sink, writeFailed>>]_vars
  /\ []((Terminated
           /\ \A i \in DOMAIN BodyEvents :
                FinishReasonForChunk(BodyEvents[i]) = JSNull)
          => [i \in DOMAIN log |-> log[i].ev] = BodyEvents)
  /\ [](response.status = "done"
          => response =
               NonStreamingResponse(Concat(SelectSeq(upstream, IsEventLine))))

C12_Witness ==
  /\ response.status = "done"
  /\ \E i, j \in DOMAIN upstream :
       i < j /\ upstream[i] = GarbageLine /\ upstream[j] = EventLine(EvLo)
  /\ \E k \in Emitted : log[k].ev = EvLo
  /\ response.message.content = "lo"

\* C13: of the tool_calls of an event whose finish_reason is not
\* "tool_calls", exactly the fragments with index and function are forwarded,
\* in their order; when none has both, the delta has no tool_calls and the
\* text of the event is its content (an empty text next to a finish_reason
\* excepted, as for every event).
ForwardedAs(entry, tc) ==
  /\ entry.index = tc.index
  /\ entry.type = "function"
  /\ Has(entry, "id") <=> (Has(tc, "id") /\ tc.id # "")
  /\ Has(entry, "id") => entry.id = tc.id
  /\ \A k \in {"name", "arguments"} :
       Has(tc.function, k) => (Has(entry, "function") /\ Has(entry.function, k)
                               /\ entry.function[k] = tc.function[k])

HasIndexAndFunction(tc) == Has(tc, "index") /\ Has(tc, "function")

C13_InvalidFragmentDroppedAlone ==
  (/\ call.fn = "BuildDelta:done"
   /\ HasToolCalls(call.jsonData)
   /\ FinishReasonForChunk(call.jsonData) # "tool_calls")
  => LET valid == SelectSeq(call.jsonData.tool_calls, HasIndexAndFunction)
     IN /\ valid # <<>> =>
             /\ Has(call.delta, "tool_calls")
             /\ Len(call.delta.tool_calls) = Len(valid)
             /\ \A k \in DOMAIN valid :
                  ForwardedAs(call.delta.tool_calls[k], valid[k])
        /\ valid = <<>> =>
             /\ ~Has(call.delta, "tool_calls")
             /\ (/\ Has(call.jsonData, "text")
                 /\ ~(call.jsonData.text = ""
                      /\ FinishReasonForChunk(call.jsonData) # JSNull))
                => (Has(call.delta, "content")
                    /\ call.delta.content = call.jsonData.text)

C13_Witness ==
  /\ call.fn = "BuildDelta:done"
  /\ Has(call.jsonData, "tool_calls")
  /\ Len(call.jsonData.tool_calls) = 2
  /\ ~Has(call.jsonData.tool_calls[1], "index")
  /\ HasIndexAndFunction(call.jsonData.tool_calls[2])
  /\ Has(call.delta, "tool_calls")
  /\ Len(call.delta.tool_calls) = 1
  /\ Has(call.jsonData, "text")

\* The content of the chunk of a log entry, an omitted or null content
\* counted as empty.
ContentOf(entry) ==
  IF Has(entry.delta, "content") /\ entry.delta.content # JSNull
  THEN entry.delta.content ELSE ""

\* The concatenation of the content of the emitted chunks.
RECURSIVE StreamContent(_)
StreamContent(entries) ==
  IF entries = <<>> THEN ""
  ELSE (IF Head(entries).accepted THEN ContentOf(Head(entries)) ELSE "")
       \o StreamContent(Tail(entries))

\* No event of the body follows an event with a non-null finish_reason.
FinishLast ==
  \A i \in DOMAIN BodyEvents :
    i < Len(BodyEvents) => FinishReasonForChunk(BodyEvents[i]) = JSNull

\* No event of the body has a non-null finish_reason.
NoFinishInBody ==
  \A i \in DOMAIN BodyEvents : FinishReasonForChunk(BodyEvents[i]) = JSNull

\* C14, as stated: for every body without tool calls the concatenated
\* content of the streaming chunks is the content of the buffered message
\* (a null content counted as empty, as an omitted one).
C14_ContentEqualOnEveryBody ==
  (Terminated /\ response.status = "done")
    => StreamContent(log) =
         (IF response.message.content = JSNull
          THEN "" ELSE response.message.content)

\* C14, amended: the two are equal for every body without tool calls that is
\* delivered to its end, in which no event follows an event with a non-null
\* finish_reason and whose finish reason is not "tool_calls".
C14_ContentEqualWhenFinishLast ==
  (/\ Terminated
   /\ response.status = "done"
   /\ FinishLast
   /\ response.finish_reason # "tool_calls")
    => StreamContent(log) = response.message.content

C14_Witness ==
  /\ Terminated
  /\ response.status = "done"
  /\ upstream = <<EventLine(EvHel), EventLine(EvLo), EventLine(EvEmptyFinish)>>
  /\ StreamContent(log) = "Hello"
  /\ Len(log) = 3

\* C15: on a body without a non-null finish_reason the finished streaming
\* run has written the terminal marker once, last, and closed the outgoing
\* stream, and the buffered response has finish_reason "stop".
C15_CleanEndWithoutFinishReason ==
  NoFinishInBody =>
    /\ Terminated =>
         /\ pc = "done"
         /\ sink = "closed"
         /\ CountDone(out) = 1
         /\ out[Len(out)] = DoneMarker
    /\ response.status = "done" => response.finish_reason = "stop"

C15_Witness ==
  /\ NoFinishInBody
  /\ Len(BodyEvents) >= 2
  /\ Terminated
  /\ Len(out) >= 3
  /\ response.status = "done"

\* C16: the body {text:"Hel"}, {text:"lo"}, {text:"", finish_reason:"stop"}
\* gives three chunks and the terminal marker in streaming mode, and content
\* "Hello" with finish_reason "stop" in buffered mode.
HelloBody == <<EventLine(EvHel), EventLine(EvLo), EventLine(EvStop)>>

C16_HelloExample ==
  upstream = HelloBody =>
    /\ Terminated =>
         out = <<Chunk([role |-> "assistant", content |-> "Hel"], JSNull),
                 Chunk([content |-> "lo"], JSNull),
                 Chunk(EmptyObj, "stop"),
                 DoneMarker>>
    /\ response.status = "done" =>
         /\ response.message = [role |-> "assistant", content |-> "Hello"]
         /\ response.finish_reason = "stop"

C16_Witness ==
  /\ upstream = HelloBody
  /\ Terminated
  /\ Len(out) = 4
  /\ reads = 3
  /\ response.status = "done"

\* C17: three indexed fragments followed by the finish_reason "tool_calls"
\* event with the summary give three tool-call chunks and a finishing chunk
\* without tool_calls in streaming mode, and one message with content null
\* and the one tool call of the summary in buffered mode.
WeatherBody ==
  <<EventLine(EvFrag), EventLine(EvLoc), EventLine(EvNY), EventLine(EvSummaryNY)>>

C17_ToolCallExample ==
  upstream = WeatherBody =>
    /\ Terminated =>
         out = <<Chunk([role |-> "assistant",
                        content |-> JSNull,
                        tool_calls |-> <<[index |-> 0, type |-> "function",
                                          id |-> "call_1",
                                          function |-> [name |-> "get_weather"]]>>],
                       JSNull),
                 Chunk([tool_calls |-> <<[index |-> 0, type |-> "function",
                                          function |-> [arguments |-> "{\"loc"]]>>],
                       JSNull),
                 Chunk([tool_calls |-> <<[index |-> 0, type |-> "function",
                                          function |-> [arguments |-> "\":\"NY\"}"]]>>],
                       JSNull),
                 Chunk(EmptyObj, "tool_calls"),
                 DoneMarker>>
    /\ response.status = "done" =>
         /\ response.message =
              [role |-> "assistant",
               content |-> JSNull,
               tool_calls |-> <<[id |-> "call_1", type |-> "function",
                                 function |-> [name |-> "get_weather",
                                               arguments |-> "{\"loc\":\"NY\"}"]]>>]
         /\ response.finish_reason = "tool_calls"

C17_Witness ==
  /\ upstream = WeatherBody
  /\ Terminated
  /\ Len(out) = 5
  /\ reads = 2
  /\ response.status = "done"

\* The last non-null finish_reason of a sequence of events; JSNull if none.
RECURSIVE LastFinishReason(_)
LastFinishReason(events) ==
  IF events = <<>> THEN JSNull
  ELSE IF FinishReasonForChunk(events[Len(events)]) # JSNull
       THEN FinishReasonForChunk(events[Len(events)])
       ELSE LastFinishReason(SubSeq(events, 1, Len(events) - 1))

\* C18: the finish_reason of the buffered response is the last non-null
\* finish_reason of the body, and "stop" when the body has none.
C18_LastFinishReasonReported ==
  response.status = "done" =>
    response.finish_reason =
      (IF LastFinishReason(BodyEvents) = JSNull
       THEN "stop" ELSE LastFinishReason(BodyEvents))

\* The concatenation of the text of the events, an absent text counted as
\* empty.
RECURSIVE ConcatTexts(_)
ConcatTexts(events) ==
  IF events = <<>> THEN ""
  ELSE (IF Has(Head(events), "text") THEN Head(events).text ELSE "")
       \o ConcatTexts(Tail(events))

\* C19: fullText is the concatenation, in order, of the text of every
\* decoded event of the body, before and after an event with a finish_reason.
C19_FullTextIsConcatenation ==
  response.status = "done" =>
    response.parsed.fullText = ConcatTexts(BodyEvents)

C19_Witness ==
  /\ response.status = "done"
  /\ upstream = <<EventLine(EvHel), EventLine(EvStop), EventLine(EvLo)>>
  /\ response.parsed.fullText = "Hello"

\* C20: every entry of the summary shape (id, name and arguments, no index)
\* of any event of the body is in the collected tool calls.
SummaryShape(tc) ==
  Has(tc, "id") /\ Has(tc, "name") /\ Has(tc, "arguments") /\ ~Has(tc, "index")

C20_EverySummaryCollected ==
  response.status = "done" =>
    \A i \in DOMAIN BodyEvents :
      HasToolCalls(BodyEvents[i]) =>
        \A k \in DOMAIN BodyEvents[i].tool_calls :
          SummaryShape(BodyEvents[i].tool_calls[k]) =>
            /\ Has(response.parsed, "toolCalls")
            /\ \E m \in DOMAIN response.parsed.toolCalls :
                 response.parsed.toolCalls[m] =
                   [id |-> BodyEvents[i].tool_calls[k].id,
                    name |-> BodyEvents[i].tool_calls[k].name,
                    arguments |-> BodyEvents[i].tool_calls[k].arguments]

\* ------------------------------------------------------------------------
\* Properties of the buffered message
\* ------------------------------------------------------------------------
\* The tool call of the message for one collected summary.
MappedSummary(tc) ==
  [id |-> tc.id, type |-> "function",
   function |-> [name |-> tc.name, arguments |-> tc.arguments]]

\* The message carries the collected summaries, mapped, in their order.
CarriesCollected ==
  /\ Has(response.message, "tool_calls")
  /\ Len(response.message.tool_calls) = Len(response.parsed.toolCalls)
  /\ \A k \in DOMAIN response.parsed.toolCalls :
       response.message.tool_calls[k] = MappedSummary(response.parsed.toolCalls[k])

\* C21: when the folded finish reason is "tool_calls" the buffered message
\* has content null and the collected summaries mapped in order as its
\* tool_calls, the empty array when none was collected.
C21_ToolCallsMessage ==
  (response.status = "done" /\ response.parsed.finishReason = "tool_calls")
    => /\ response.message.content = JSNull
       /\ IF Has(response.parsed, "toolCalls")
          THEN CarriesCollected
          ELSE /\ Has(response.message, "tool_calls")
               /\ response.message.tool_calls = <<>>

C21_Witness ==
  /\ response.status = "done"
  /\ response.parsed.finishReason = "tool_calls"
  /\ Has(response.parsed, "toolCalls")
  /\ response.message.tool_calls =
       <<MappedSummary(SummaryNY), MappedSummary(SummaryNow)>>
  /\ response.parsed.fullText = "Hel"

\* C22: when summaries were collected and the folded finish reason is not
\* "tool_calls", the message has content null and the collected tool calls
\* and the response has the folded finish reason; when none was collected
\* and the finish reason is not "tool_calls", the content is fullText and the
\* message has no tool_calls.
C22_FallbackMessage ==
  (response.status = "done" /\ response.parsed.finishReason # "tool_calls")
    => IF Has(response.parsed, "toolCalls")
       THEN /\ response.message.content = JSNull
            /\ CarriesCollected
            /\ response.finish_reason = response.parsed.finishReason
       ELSE /\ response.message.content = response.parsed.fullText
            /\ ~Has(response.message, "tool_calls")

\* ------------------------------------------------------------------------
\* Properties of the framing, on a body split anywhere into pushes
\* ------------------------------------------------------------------------
\* The text of the body, what has been pushed of it, and what the inner loop
\* has taken out of the buffer.
Text == Concat(upstream)
Received == SubSeq(Text, 1, delivered)
Consumed == SubSeq(Text, 1, delivered - Len(buffer))

\* The lines of s that a newline ends, without the newline, in order.
RECURSIVE TerminatedLines(_, _)
TerminatedLines(s, cur) ==
  IF s = <<>> THEN <<>>
  ELSE IF Head(s) = NL
       THEN <<cur>> \o TerminatedLines(Tail(s), <<>>)
       ELSE TerminatedLines(Tail(s), Append(cur, Head(s)))

\* What follows the last newline of s.
RECURSIVE AfterLastNL(_)
AfterLastNL(s) ==
  IF s = <<>> \/ s[Len(s)] = NL THEN <<>>
  ELSE Append(AfterLastNL(SubSeq(s, 1, Len(s) - 1)), s[Len(s)])

\* The text made of the lines, each ended by a newline.
JoinLines(lines) == Concat([i \in 1..Len(lines) |-> lines[i] \o <<NL>>])

\* The line begins with the prefix and its trimmed payload is one document.
HoldsRecord(line) ==
  /\ line # <<>>
  /\ Head(line) = DATA
  /\ Len(Trim(Tail(line))) = 1
  /\ Trim(Tail(line))[1].t = "json"

\* The line begins with the prefix and its trimmed payload is [DONE].
IsDoneLine(line) ==
  line # <<>> /\ Head(line) = DATA /\ Trim(Tail(line)) = <<DONE>>

\* The line is blank or does not begin with the prefix.
IsIgnoredLine(line) == line = <<>> \/ Head(line) # DATA
IsNotIgnoredLine(line) == ~IsIgnoredLine(line)

\* The streaming reader trims a line before it looks at it (index.ts:390).
HoldsRecordTrimmed(line) == HoldsRecord(Trim(line))

\* The events of the lines that hold a record once trimmed, in order.
TrimmedEvents(lines) ==
  LET records == SelectSeq(lines, HoldsRecordTrimmed)
  IN [i \in 1..Len(records) |-> Trim(Tail(Trim(records[i])))[1].v]

LogEvents == [i \in DOMAIN log |-> log[i].ev]

\* A [DONE] line is among the lines taken out of the buffer so far.
DoneConsumed ==
  \E i \in DOMAIN TerminatedLines(Consumed, <<>>) :
    IsDoneLine(TerminatedLines(Consumed, <<>>)[i])

\* The lines of the text before its first [DONE] line; the whole text when
\* it has none.
RECURSIVE BeforeDone(_)
BeforeDone(lines) ==
  IF lines = <<>> \/ IsDoneLine(Head(lines)) THEN <<>>
  ELSE <<Head(lines)>> \o BeforeDone(Tail(lines))

TextBeforeDone ==
  IF \E i \in DOMAIN TerminatedLines(Text, <<>>) :
       IsDoneLine(TerminatedLines(Text, <<>>)[i])
  THEN JoinLines(BeforeDone(TerminatedLines(Text, <<>>)))
  ELSE Text

\* C23: once a [DONE] line has been taken out of the buffer, no event is
\* decoded and nothing but the terminal marker is written; the buffered
\* response is the response to the text before the first [DONE] line.
C23_DoneEndsFrames ==
  /\ [][DoneConsumed
          => (log' = log /\ (out' = out \/ out' = Append(out, DoneMarker)))]_vars
  /\ [](response.status = "done"
          => response = NonStreamingResponse(TextBeforeDone))

\* C24: whatever the split into pushes, the buffer is the end of the text
\* received, what was taken out of it ends at a newline, the decoded events
\* are those of the newline-terminated lines taken out, each once and in
\* order, and between pushes the buffer is the text after the last newline
\* received.
C24_LinesOncePerNewline ==
  /\ buffer = SubSeq(Text, delivered - Len(buffer) + 1, delivered)
  /\ (Consumed = <<>> \/ Consumed[Len(Consumed)] = NL)
  /\ LogEvents = TrimmedEvents(TerminatedLines(Consumed, <<>>))
  /\ pc # "lines" =>
       (buffer = AfterLastNL(Received) /\ \A i \in DOMAIN buffer : buffer[i] # NL)

C24_Witness ==
  /\ pc = "read"
  /\ reads >= 2
  /\ buffer # <<>>
  /\ Len(log) >= 1
  /\ delivered < Len(Text)
  /\ Len(TerminatedLines(Consumed, <<>>)) >= 2

\* C25: a trailing part of the input that no newline ends is not parsed: the
\* decoded events of the finished streaming run are among those of the
\* terminated lines, and the buffered response is the response to the
\* terminated lines alone.
C25_TrailingFragmentDiscarded ==
  /\ Terminated =>
       /\ Len(log) <= Len(TrimmedEvents(TerminatedLines(Text, <<>>)))
       /\ \A i \in DOMAIN log :
            log[i].ev = TrimmedEvents(TerminatedLines(Text, <<>>))[i]
  /\ response.status = "done" =>
       response = NonStreamingResponse(JoinLines(TerminatedLines(Text, <<>>)))

\* C26: a step on a line that is blank or does not begin with the prefix
\* changes neither the output nor the role and finish flags, and the
\* buffered response is the response to the text without these lines.
C26_NonDataLinesIgnored ==
  /\ [][(pc = "lines" /\ IsIgnoredLine(TerminatedLines(buffer, <<>>)[1]))
          => UNCHANGED <<out, log, hasSentRoleAssistant, streamFinished>>]_vars
  /\ [](response.status = "done"
          => response =
               NonStreamingResponse(
                 JoinLines(SelectSeq(TerminatedLines(Text, <<>>), IsNotIgnoredLine))
                 \o AfterLastNL(Text)))

\* ------------------------------------------------------------------------
\* Properties of the tool-call entries of a delta
\* ------------------------------------------------------------------------
\* The name and arguments keys of the function of a fragment.
FunctionKeys(tc) == DOMAIN tc.function \cap {"name", "arguments"}

HasNonEmptyId(tc) == Has(tc, "id") /\ tc.id # ""

\* The entry is the delta entry of the fragment tc.
IsEntryOf(entry, tc) ==
  /\ DOMAIN entry \subseteq {"index", "type", "id", "function"}
  /\ Has(entry, "index") /\ entry.index = tc.index
  /\ Has(entry, "type") /\ entry.type = "function"
  /\ Has(entry, "id") <=> HasNonEmptyId(tc)
  /\ Has(entry, "id") => entry.id = tc.id
  /\ Has(entry, "function") =>
       /\ DOMAIN entry.function = FunctionKeys(tc)
       /\ \A k \in FunctionKeys(tc) : entry.function[k] = tc.function[k]
  /\ FunctionKeys(tc) # {} => Has(entry, "function")
  /\ (HasNonEmptyId(tc) /\ FunctionKeys(tc) = {}) =>
       (Has(entry, "function") /\ DOMAIN entry.function = {})

\* C27: every entry of delta.tool_calls has index and type "function", an id
\* exactly when its fragment has a non-empty id, and a function object with
\* exactly the name and arguments of the fragment, empty when the fragment
\* has a non-empty id and neither of them.
C27_EntryShape ==
  (call.fn = "BuildDelta:done" /\ Has(call.delta, "tool_calls"))
    => LET valid == SelectSeq(call.jsonData.tool_calls, HasIndexAndFunction)
       IN /\ Len(call.delta.tool_calls) = Len(valid)
          /\ \A k \in DOMAIN valid : IsEntryOf(call.delta.tool_calls[k], valid[k])

C27_Witness ==
  /\ call.fn = "BuildDelta:done"
  /\ Has(call.delta, "tool_calls")
  /\ Len(call.delta.tool_calls) = 2
  /\ call.delta.tool_calls[1] =
       [index |-> 0, type |-> "function", id |-> "call_1", function |-> EmptyObj]
  /\ call.delta.tool_calls[2] =
       [index |-> 0, type |-> "function", function |-> [arguments |-> "x"]]

\* C28: the entries of an emitted delta are those of the fragments of its one
\* event, in their order, with the name and the arguments of the fragment
\* unchanged, and the events are those of the body in their order.
C28_FragmentsVerbatim ==
  /\ \A i \in DOMAIN log : log[i].ev = BodyEvents[i]
  /\ \A i \in DOMAIN log :
       Has(log[i].delta, "tool_calls") =>
         LET valid == SelectSeq(log[i].ev.tool_calls, HasIndexAndFunction)
         IN /\ Len(log[i].delta.tool_calls) = Len(valid)
            /\ \A k \in DOMAIN valid :
                 /\ Has(log[i].delta.tool_calls[k], "function")
                 /\ log[i].delta.tool_calls[k].function =
                      [key \in FunctionKeys(valid[k]) |-> valid[k].function[key]]

C28_Witness ==
  /\ Terminated
  /\ Len(log) >= 3
  /\ \A i \in 1..3 : log[i].accepted /\ Has(log[i].delta, "tool_calls")
  /\ log[1].delta.tool_calls[1].function = [name |-> "get_weather"]
  /\ log[2].delta.tool_calls[1].function = [arguments |-> "{\"loc"]
  /\ log[3].delta.tool_calls[1].function = [arguments |-> "\":\"NY\"}"]

\* ------------------------------------------------------------------------
\* Properties of the order of reads and writes
\* ------------------------------------------------------------------------
\* C30: reader.read() is called only when the buffer holds no complete line;
\* then every decoded event of the earlier pushes has its chunk settled, the
\* accepted ones being in the outgoing stream.
C30_ReadAfterLinesProcessed ==
  /\ [][reads' # reads
          => (pc = "read" /\ \A i \in DOMAIN buffer : buffer[i] # NL)]_vars
  /\ [](pc = "read" =>
          /\ \A i \in DOMAIN buffer : buffer[i] # NL
          /\ SelectSeq(out, IsChunk) = EmittedChunks(log))

C30_Witness ==
  /\ pc = "read"
  /\ reads = 2
  /\ delivered = 3
  /\ Len(log) = 3
  /\ Len(out) = 3
  /\ buffer = <<>>

\* ------------------------------------------------------------------------
\* Properties of two concurrent requests
\* ------------------------------------------------------------------------
\* C29: under every interleaving each of the two finished requests has
\* written what it writes when it runs alone, and no step of one changes
\* buffer, streamFinished, hasSentRoleAssistant or the output of the other.
C29_RequestsIndependent ==
  /\ [](Terminated => out = AloneOut(upstream))
  /\ [](peer.pc = "done" => peer.out = AloneOut(peer.body))
  /\ [][peer' # peer
          => UNCHANGED <<buffer, streamFinished, hasSentRoleAssistant, out>>]_vars
  /\ [][(buffer' # buffer \/ streamFinished' # streamFinished
           \/ hasSentRoleAssistant' # hasSentRoleAssistant \/ out' # out)
          => peer' = peer]_vars

C29_Witness ==
  /\ pc = "lines"
  /\ peer.pc = "lines"
  /\ hasSentRoleAssistant
  /\ ~peer.hasSentRoleAssistant
  /\ Len(out) = 1
  /\ peer.body # upstream
  /\ peer.body[1] = EventLine(EvFrag)

\* ------------------------------------------------------------------------
\* Properties of the record written for a chunk
\* ------------------------------------------------------------------------
\* C31: the text written for a chunk, read back line by line and decoded,
\* gives one record, which is the chunk; the blank line gives none.
C31_WrittenChunkReadsBack ==
  call.fn = "roundTrip:done" =>
    /\ Len(call.records) = 1
    /\ call.records[1] = call.chunk

C31_Witness ==
  /\ call.fn = "roundTrip:done"
  /\ Has(call.chunk.delta, "content")
  /\ call.chunk.delta.content = <<" ", "\n">>
  /\ Len(call.records) = 1
  /\ Len(call.text) = 11

\* The request last served, its response and the configuration.
Served == worker.served >= 1
LastRequest == worker.last.request
LastResponse == worker.last.response
KeyConfigured == IsSet(worker.env, "API_KEY")
TokenConfigured == IsSet(worker.env, "RAYCAST_BEARER_TOKEN")
NoUpstreamCall == ~LastResponse.fetched /\ ~LastResponse.relayed

\* The Authorization header is exactly "Bearer <API_KEY>".
ExactBearer(req) ==
  /\ Has(req, "Authorization")
  /\ req.Authorization = <<"Bearer", " ">> \o worker.env.API_KEY

Unauthorized ==
  /\ Served
  /\ KeyConfigured
  /\ LastRequest.method # "OPTIONS"
  /\ ~ExactBearer(LastRequest)

\* C32 as stated: when API_KEY is configured, every non-OPTIONS request
\* whose Authorization header is not exactly "Bearer <API_KEY>" is
\* answered with 401 and triggers no upstream call; when API_KEY is not
\* configured no request is refused by the validation.
C32_Original ==
  /\ Unauthorized => LastResponse.status = 401 /\ NoUpstreamCall
  /\ Served /\ ~KeyConfigured => LastResponse.status # 401

\* C32: when API_KEY is configured, a non-OPTIONS request whose
\* Authorization header is not exactly "Bearer <API_KEY>" triggers no
\* upstream call and is answered with 401 when RAYCAST_BEARER_TOKEN is
\* configured and with 500 when it is not; when API_KEY is not configured
\* no request is answered with 401.
C32_UnauthorizedNeverReachesUpstream ==
  /\ Unauthorized =>
       /\ NoUpstreamCall
       /\ LastResponse.status = IF TokenConfigured THEN 401 ELSE 500
  /\ Served /\ ~KeyConfigured => LastResponse.status # 401

C32_Witness ==
  /\ Unauthorized
  /\ TokenConfigured
  /\ LastRequest.method = "POST"
  /\ LastRequest.path = "/v1/chat/completions"
  /\ Has(LastRequest, "Authorization")
  /\ LastRequest.Authorization = <<"Bearer", " ">> \o ApiKey \o <<"x">>
  /\ LastResponse.status = 401
  /\ worker.fetches = 0
  /\ worker.served = 2

\* C33: once a fetched model directory is available, a later request does
\* not fetch the upstream directory again.
C33_DirectoryNotFetchedAgain ==
  [][worker.directoryFetched => worker'.fetches = worker.fetches]_vars

\* The last request reached the directory lookup of handleChatCompletions.
ChatLookedUp ==
  /\ Served
  /\ IsChat(LastRequest.method, LastRequest.path)
  /\ LastResponse.fetched

LastModelId == RequestedModelId(LastRequest.body)

\* C38: a chat-completion request that reaches the directory lookup with
\* a model identifier that is not in the fetched directory, or with an
\* empty directory, is not relayed: it is answered with 500 when the
\* directory is empty and with 400 otherwise; a relayed request carries
\* the provider and model of its directory entry.
C38_UnknownModelNeverRelayed ==
  ChatLookedUp =>
    /\ DOMAIN worker.last.models = {} =>
         ~LastResponse.relayed /\ LastResponse.status = 500
    /\ DOMAIN worker.last.models # {} /\ LastModelId \notin DOMAIN worker.last.models =>
         ~LastResponse.relayed /\ LastResponse.status = 400
    /\ LastResponse.relayed =>
         /\ LastModelId \in DOMAIN worker.last.models
         /\ LastResponse.provider = worker.last.models[LastModelId].provider
         /\ LastResponse.model = worker.last.models[LastModelId].model

C38_Witness ==
  /\ ChatLookedUp
  /\ ~Has(LastRequest.body, "model")
  /\ DOMAIN worker.last.models = {"gpt-4o"}
  /\ LastResponse.status = 400
  /\ ~LastResponse.relayed
  /\ worker.fetches = 2

\* C34: the chunks a streaming run has written when it ends depend on the
\* text of the body only, not on where the text was cut into pushes: they
\* are the chunks of the run that reads the same text one piece per push.
C34_ChunksIndependentOfSplit ==
  pc = "done" => out = AloneOut(upstream)

\* The positions of the finishing chunks written by the streaming run.
FinishingChunks ==
  {i \in 1..Len(out) : out[i].kind = "chunk" /\ out[i].finish_reason # JSNull}

\* C35: for a body with at least one non-null finish_reason, the streaming
\* run writes a finishing chunk and the finish_reason it carries is the
\* finish_reason of the buffered response to the same body.
C35_FinishReasonSameInBothModes ==
  (/\ pc = "done"
   /\ response.status = "done"
   /\ LastFinishReason(BodyEvents) # JSNull) =>
    /\ FinishingChunks # {}
    /\ \A i \in FinishingChunks : out[i].finish_reason = response.finish_reason

\* C36: the message of a buffered response has a tool_calls key exactly
\* when its content is null; a message whose content is a string has no
\* tool_calls.
C36_ToolCallsIffContentNull ==
  response.status = "done" =>
    (Has(response.message, "tool_calls") <=> response.message.content = JSNull)

C36_Witness ==
  /\ response.status = "done"
  /\ response.finish_reason = "length"
  /\ response.parsed.fullText = "lo"
  /\ response.message.content = JSNull
  /\ Has(response.message, "tool_calls")
  /\ Len(response.message.tool_calls) = 1

\* C37: a streaming run leaves the outgoing stream closed or errored when
\* it ends, and its background task never ends in a rejection that nothing
\* handles, also when the writer was aborted before the final close.
C37_TaskEndsWithoutRejection ==
  /\ pc # "rejected"
  /\ Terminated => sink \in {"closed", "errored"}

IsUserOrAssistant(m) == m.role \in {"user", "assistant"}

====
